---- MODULE Spec2Model ----
(***************************************************************************)
(* signl: a security-advisory notifier.  The module models the poll loop   *)
(* of src/main.py with the dedup ledger of src/state.py, the feeds that    *)
(* filter by the poll cursor, the matcher, the scoring engine and the      *)
(* decision classifier.                                                    *)
(*                                                                         *)
(* Text is a sequence of one-character strings, so that lower(), strip(),  *)
(* substring search and the \b word boundary are computed, not assumed.    *)
(* Time is an integer number of days; a CVSS score is an integer number of *)
(* tenths (98 is 9.8).  An optional value is a sequence of length 0 (None) *)
(* or 1.                                                                   *)
(***************************************************************************)
EXTENDS Integers, Sequences, FiniteSets, TLC

None == <<>>
Some(v) == <<v>>

Max(a, b) == IF a >= b THEN a ELSE b
Min(a, b) == IF a <= b THEN a ELSE b

(***************************************************************************)
(* Python str operations                                                   *)
(***************************************************************************)
UpperChars == <<"A","B","C","D","E","F","G","H","I","J","K","L","M",
                "N","O","P","Q","R","S","T","U","V","W","X","Y","Z">>
LowerChars == <<"a","b","c","d","e","f","g","h","i","j","k","l","m",
                "n","o","p","q","r","s","t","u","v","w","x","y","z">>
DigitChars == {"0","1","2","3","4","5","6","7","8","9"}
Whitespace == {" ", "\t", "\n"}

Range(s) == {s[i] : i \in DOMAIN s}

\* str.lower() on one character
LowerChar(c) ==
  IF \E i \in 1..26 : UpperChars[i] = c
  THEN LowerChars[CHOOSE i \in 1..26 : UpperChars[i] = c]
  ELSE c

\* str.lower()
Lower(s) == [i \in 1..Len(s) |-> LowerChar(s[i])]

\* str.upper() is only used in a reason text; str.strip()
Strip(s) ==
  LET keep == {i \in 1..Len(s) : s[i] \notin Whitespace}
  IN IF keep = {} THEN <<>>
     ELSE LET lo == CHOOSE i \in keep : \A j \in keep : i <= j
              hi == CHOOSE i \in keep : \A j \in keep : i >= j
          IN SubSeq(s, lo, hi)

\* str.replace(a, b) for one-character a and b
Replace(s, a, b) == [i \in 1..Len(s) |-> IF s[i] = a THEN b ELSE s[i]]

\* needle in haystack
Contains(text, tok) ==
  \E p \in 0..(Len(text) - Len(tok)) : \A k \in 1..Len(tok) : text[p + k] = tok[k]

\* regex \w
IsWordChar(c) ==
  \/ c \in DigitChars
  \/ c = "_"
  \/ \E i \in 1..26 : UpperChars[i] = c \/ LowerChars[i] = c

\* regex \b between text[k] and text[k+1] (k = 0 and k = Len(text) are the ends)
Boundary(text, k) ==
  LET left  == k >= 1 /\ k <= Len(text) /\ IsWordChar(text[k])
      right == k + 1 >= 1 /\ k + 1 <= Len(text) /\ IsWordChar(text[k + 1])
  IN left # right

\* " ".join(list)
RECURSIVE Join(_)
Join(list) ==
  IF list = <<>> THEN <<>>
  ELSE IF Len(list) = 1 THEN list[1]
  ELSE list[1] \o <<" ">> \o Join(Tail(list))

\* f"{a} {b}"
Fmt2(a, b) == a \o <<" ">> \o b

(***************************************************************************)
(* src/dependencies/normalize.py                                           *)
(***************************************************************************)
PIP  == <<"p","i","p">>
PYPI == <<"p","y","p","i">>
NPM  == <<"n","p","m">>

normalize_package_name(name, ecosystem, normalize_names) ==
  LET cleaned == Strip(name)
      lowered == Lower(cleaned)
      ecosystem_name == Lower(ecosystem)
  IN IF ~normalize_names THEN cleaned
     ELSE IF ecosystem_name \in {PIP, PYPI}
          THEN Replace(Replace(lowered, "_", "-"), ".", "-")
     ELSE IF ecosystem_name = NPM THEN Replace(lowered, "_", "-")
     ELSE lowered

(***************************************************************************)
(* src/matcher.py                                                          *)
(***************************************************************************)
KUBERNETES == <<"k","u","b","e","r","n","e","t","e","s">>
K8S == <<"k","8","s">>
AKS == <<"a","k","s">>
EKS == <<"e","k","s">>
GKE == <<"g","k","e">>
ENTRA_ID == <<"e","n","t","r","a","-","i","d">>
AZURE_AD == <<"a","z","u","r","e"," ","a","d">>
AZURE_AD_DASH == <<"a","z","u","r","e","-","a","d">>
ENTRA == <<"e","n","t","r","a">>
AWS == <<"a","w","s">>
AMAZON_WEB_SERVICES ==
  <<"a","m","a","z","o","n"," ","w","e","b"," ","s","e","r","v","i","c","e","s">>
AMAZON_AWS == <<"a","m","a","z","o","n"," ","a","w","s">>

\* a dict is a sequence of <<key, value>> pairs in insertion order
DEFAULT_SYNONYMS ==
  << <<KUBERNETES, <<K8S, AKS, EKS, GKE>> >>,
     <<ENTRA_ID, <<AZURE_AD, AZURE_AD_DASH, ENTRA>> >>,
     <<AWS, <<AMAZON_WEB_SERVICES, AMAZON_AWS>> >> >>

EmptyDetails ==
  [direct_package_hits |-> {}, transitive_package_hits |-> {}, service_hits |-> {},
   cloud_hits |-> {}, keyword_hits |-> {}, language_hits |-> {}, alias_hits |-> {}]

_contains_token(text, token0) ==
  LET token == Strip(token0)
  IN IF token = <<>> THEN FALSE
     ELSE IF Len(token) <= 3
          THEN \E p \in 0..(Len(text) - Len(token)) :
                 /\ \A k \in 1..Len(token) : text[p + k] = token[k]
                 /\ Boundary(text, p)
                 /\ Boundary(text, p + Len(token))
     ELSE Contains(text, token)

_lower_set(values) == {Lower(values[i]) : i \in {j \in DOMAIN values : values[j] # <<>>}}

\* the (alias_norm, canonical_norm) registrations of _register_aliases, in order
RECURSIVE _register_aliases(_)
_register_aliases(table) ==
  IF table = <<>> THEN <<>>
  ELSE LET canonical_norm == Lower(Strip(table[1][1]))
           aliases == table[1][2]
           regs == [i \in 1..Len(aliases) |-> <<Lower(Strip(aliases[i])), canonical_norm>>]
           kept == SelectSeq(regs, LAMBDA r : r[1] # <<>>)
       IN (IF canonical_norm = <<>> THEN <<>> ELSE kept) \o _register_aliases(Tail(table))

\* [alias_to_canonical, canonical_to_aliases]; a missing key is not in the DOMAIN
_build_synonym_maps(custom, enabled) ==
  IF ~enabled THEN [alias_to_canonical |-> <<>>, canonical_to_aliases |-> <<>>]
  ELSE LET regs == _register_aliases(DEFAULT_SYNONYMS \o custom)
           aliases == {regs[i][1] : i \in DOMAIN regs}
           canonicals == {regs[i][2] : i \in DOMAIN regs}
           last(a) == CHOOSE i \in DOMAIN regs :
                        /\ regs[i][1] = a
                        /\ \A j \in DOMAIN regs : regs[j][1] = a => j <= i
       IN [alias_to_canonical |-> [a \in aliases |-> regs[last(a)][2]],
           canonical_to_aliases |->
             [c \in canonicals |-> {regs[i][1] : i \in {j \in DOMAIN regs : regs[j][2] = c}}]]

\* dict.get(key, set()) on a dict of sets
GetSet(d, key) == IF key \in DOMAIN d THEN d[key] ELSE {}

\* package dicts (ecosystem -> names) are sequences of <<ecosystem, <<names>>>> pairs
NormalizedBy(table, normalize_names) ==
  LET ecos == {Lower(table[i][1]) : i \in DOMAIN table}
  IN [eco \in ecos |->
        UNION {{normalize_package_name(table[i][2][k], eco, normalize_names) :
                  k \in DOMAIN table[i][2]} :
               i \in {j \in DOMAIN table : Lower(table[j][1]) = eco}}]

\* _build_package_sets that leaves out the dependency graph's direct set
_build_package_sets_mut(config, dependencies, normalize_names) ==
  [direct |-> NormalizedBy(config.packages, normalize_names),
   transitive |-> NormalizedBy(dependencies.transitive, normalize_names)]

_build_package_sets(config, dependencies, normalize_names) ==
  LET own == NormalizedBy(config.packages, normalize_names)
      dep == NormalizedBy(dependencies.direct, normalize_names)
      tra == NormalizedBy(dependencies.transitive, normalize_names)
  IN [direct |-> [eco \in DOMAIN own \cup DOMAIN dep |-> GetSet(own, eco) \cup GetSet(dep, eco)],
      transitive |-> tra]

\* the first element of S in the iteration order ord (a sequence holding S)
FirstIn(S, ord) ==
  ord[CHOOSE i \in DOMAIN ord : ord[i] \in S /\ \A j \in DOMAIN ord : ord[j] \in S => i <= j]

\* one (ecosystem, pkg) iteration of the loop of _match_packages:
\* the bucket it fills, the term and the reason it appends
PackageStep(pkg, ecosystem, match_config, synonym_index, direct_packages, transitive_packages) ==
  LET normalized == normalize_package_name(pkg, ecosystem, match_config.normalize_names)
      known == normalized \in DOMAIN synonym_index
      alias == IF known THEN synonym_index[normalized] ELSE <<>>
      loose == match_config.mode = "loose"
  IN IF normalized \in GetSet(direct_packages, ecosystem)
     THEN [bucket |-> "direct", term |-> normalized, reason |-> <<"Direct package match", pkg>>]
     ELSE IF loose /\ known /\ alias # <<>> /\ alias \in GetSet(direct_packages, ecosystem)
     THEN [bucket |-> "alias", term |-> normalized,
           reason |-> <<"Package alias match", pkg, alias>>]
     ELSE IF normalized \in GetSet(transitive_packages, ecosystem)
     THEN [bucket |-> "transitive", term |-> normalized,
           reason |-> <<"Transitive package match", pkg>>]
     ELSE IF loose /\ known /\ alias # <<>> /\ alias \in GetSet(transitive_packages, ecosystem)
     THEN [bucket |-> "alias", term |-> normalized,
           reason |-> <<"Transitive alias match", pkg, alias>>]
     ELSE [bucket |-> "none", term |-> normalized, reason |-> <<>>]

\* one pkg iteration of the loop of _match_package_mentions
MentionStep(pkg, text, match_config, synonyms_by_canonical, ord) ==
  LET token == Lower(pkg)
      found == {a \in GetSet(synonyms_by_canonical, token) : _contains_token(text, a)}
  IN IF _contains_token(text, token)
     THEN [bucket |-> "direct", term |-> token, reason |-> <<"Package mentioned", pkg>>]
     ELSE IF match_config.mode = "loose" /\ found # {}
     THEN [bucket |-> "alias", term |-> token,
           reason |-> <<"Package alias mention", FirstIn(found, ord), token>>]
     ELSE [bucket |-> "none", term |-> token, reason |-> <<>>]

_match_package_mentions(text, match_config, synonyms_by_canonical, direct_packages, ord) ==
  {MentionStep(pkg, text, match_config, synonyms_by_canonical, ord) :
     pkg \in UNION {direct_packages[eco] : eco \in DOMAIN direct_packages}}

\* the set of loop outcomes of _match_packages
_match_packages(item, text, match_config, maps, sets, ord) ==
  IF item.affected_packages = <<>>
  THEN _match_package_mentions(text, match_config, maps.canonical_to_aliases, sets.direct, ord)
  ELSE LET item_ecosystems == _lower_set(item.ecosystems)
           ecosystems == IF item_ecosystems # {} THEN item_ecosystems
                         ELSE DOMAIN sets.direct \cup DOMAIN sets.transitive
       IN {PackageStep(item.affected_packages[k], eco, match_config,
                       maps.alias_to_canonical, sets.direct, sets.transitive) :
             k \in DOMAIN item.affected_packages, eco \in ecosystems \ {<<>>}}

\* the iteration of _match_services and _match_cloud with the alias lookup
\* made in strict mode too
EntityStep_mut(name, direct_reason, alias_reason, text, affected_set, synonyms_by_canonical, match_config, ord) ==
  LET token == Lower(name)
      found == {a \in GetSet(synonyms_by_canonical, token) :
                  a \in affected_set \/ _contains_token(text, a)}
  IN IF token \in affected_set \/ _contains_token(text, token)
     THEN [hit |-> TRUE, term |-> token, reason |-> <<direct_reason, name>>]
     ELSE IF found # {}
     THEN [hit |-> TRUE, term |-> token,
           reason |-> <<alias_reason, FirstIn(found, ord), name>>]
     ELSE [hit |-> FALSE, term |-> token, reason |-> <<>>]

\* _match_services and _match_cloud: one iteration per configured name
EntityStep(name, direct_reason, alias_reason, text, affected_set, synonyms_by_canonical, match_config, ord) ==
  LET token == Lower(name)
      found == {a \in GetSet(synonyms_by_canonical, token) :
                  a \in affected_set \/ _contains_token(text, a)}
  IN IF token \in affected_set \/ _contains_token(text, token)
     THEN [hit |-> TRUE, term |-> token, reason |-> <<direct_reason, name>>]
     ELSE IF match_config.mode = "loose" /\ found # {}
     THEN [hit |-> TRUE, term |-> token,
           reason |-> <<alias_reason, FirstIn(found, ord), name>>]
     ELSE [hit |-> FALSE, term |-> token, reason |-> <<>>]

_match_services(text, affected, services, synonyms_by_canonical, match_config, ord) ==
  {EntityStep(services[i], "Service match", "Service alias match", text, _lower_set(affected),
              synonyms_by_canonical, match_config, ord) : i \in DOMAIN services}

_match_cloud(text, affected, clouds, synonyms_by_canonical, match_config, ord) ==
  {EntityStep(clouds[i], "Cloud match", "Cloud alias match", text, _lower_set(affected),
              synonyms_by_canonical, match_config, ord) : i \in DOMAIN clouds}

\* _match_keywords and _match_languages
TokenStep(name, reason, text) ==
  IF _contains_token(text, Lower(name))
  THEN [hit |-> TRUE, term |-> Lower(name), reason |-> <<reason, name>>]
  ELSE [hit |-> FALSE, term |-> Lower(name), reason |-> <<>>]

_match_keywords(text, keywords) ==
  {TokenStep(keywords[i], "Keyword match", text) : i \in DOMAIN keywords}

_match_languages(text, languages) ==
  {TokenStep(languages[i], "Language match", text) : i \in DOMAIN languages}

\* reasons is the set behind sorted(set(reasons)); ord is the iteration order
\* of the alias sets
calculate_relevance(item, config, dependencies, ord) ==
  LET text == Lower(Fmt2(item.title, item.description))
      match_config == config.match
      maps == _build_synonym_maps(config.synonyms, match_config.synonyms)
      sets == _build_package_sets(config, dependencies, match_config.normalize_names)
      pk == _match_packages(item, text, match_config, maps, sets, ord)
      sv == _match_services(text, item.affected_services, config.services,
                            maps.canonical_to_aliases, match_config, ord)
      cl == _match_cloud(text, item.affected_cloud, config.cloud,
                         maps.canonical_to_aliases, match_config, ord)
      kw == _match_keywords(text, config.keywords)
      lg == _match_languages(text, config.languages)
      reasons == {r.reason : r \in {x \in pk : x.bucket # "none"}}
                   \cup {r.reason : r \in {x \in sv \cup cl \cup kw \cup lg : x.hit}}
      details ==
        [direct_package_hits |-> {r.term : r \in {x \in pk : x.bucket = "direct"}},
         transitive_package_hits |-> {r.term : r \in {x \in pk : x.bucket = "transitive"}},
         service_hits |-> {r.term : r \in {x \in sv : x.hit}},
         cloud_hits |-> {r.term : r \in {x \in cl : x.hit}},
         keyword_hits |-> {r.term : r \in {x \in kw : x.hit}},
         language_hits |-> {r.term : r \in {x \in lg : x.hit}},
         alias_hits |-> {r.term : r \in {x \in pk : x.bucket = "alias"}}]
  IN [is_relevant |-> reasons # {}, reasons |-> reasons, details |-> details]

(***************************************************************************)
(* src/scoring.py.  A weight is an integer number of hundredths (45 is     *)
(* 0.45), an asset-criticality weight an integer number of tenths, an EPSS *)
(* value an integer number of hundredths.                                  *)
(***************************************************************************)
CRITICAL == <<"c","r","i","t","i","c","a","l">>
HIGH == <<"h","i","g","h">>
MEDIUM == <<"m","e","d","i","u","m">>
LOW == <<"l","o","w">>
CISA == <<"c","i","s","a">>
KEV == <<"k","e","v">>

SEVERITY_MAP == << <<CRITICAL, 90>>, <<HIGH, 75>>, <<MEDIUM, 55>>, <<LOW, 30>> >>

\* int(round(n / d)) for d > 0: Python 3 rounds a half to the even integer
RoundDiv(n, d) ==
  LET fl == IF n >= 0 THEN n \div d ELSE -((-n + d - 1) \div d)
      rem == n - fl * d
  IN IF 2 * rem > d THEN fl + 1
     ELSE IF 2 * rem < d THEN fl
     ELSE IF fl % 2 = 0 THEN fl ELSE fl + 1

\* math.ceil on an integer number of days
Ceil(n) == n

_score_severity(item) ==
  IF item.cvss_score # None
  THEN [score |-> Min(Max(item.cvss_score[1], 0), 100),
        reason |-> <<[tag |-> "CVSS", n |-> item.cvss_score[1]]>>]
  ELSE LET key == Lower(item.severity)
           hit == {i \in DOMAIN SEVERITY_MAP : SEVERITY_MAP[i][1] = key}
       IN IF item.severity # <<>> /\ hit # {}
          THEN LET mapped == SEVERITY_MAP[CHOOSE i \in hit : TRUE][2]
               IN [score |-> mapped, reason |-> <<[tag |-> "Vendor severity", n |-> mapped]>>]
          ELSE [score |-> 0, reason |-> <<>>]

\* raw_data is a function from key to [num |-> is a number, val |-> hundredths]
EPSS_KEYS == <<"epss", "epssScore", "epss_score">>

_extract_epss(raw) ==
  LET hit == {i \in DOMAIN EPSS_KEYS : EPSS_KEYS[i] \in DOMAIN raw /\ raw[EPSS_KEYS[i]].num}
  IN IF hit = {} THEN None
     ELSE Some(raw[EPSS_KEYS[CHOOSE i \in hit : \A j \in hit : i <= j]].val)

IsKev(item) ==
  Lower(item.source) = CISA \/ KEV \in {Lower(item.tags[i]) : i \in DOMAIN item.tags}

_score_exploitability(item, scoring) ==
  LET text == Lower(Fmt2(item.title, item.description))
      any(list) == \E i \in DOMAIN list : Contains(text, Lower(list[i]))
      kev == IsKev(item)
      wild == any(scoring.keywords.exploited_in_wild)
      poc == any(scoring.keywords.poc)
      epss == _extract_epss(item.raw_data)
      hasEpss == epss # None /\ epss[1] >= 50
      score == (IF kev THEN 60 ELSE 0) + (IF wild THEN 20 ELSE 0)
                 + (IF poc THEN 10 ELSE 0) + (IF hasEpss THEN 10 ELSE 0)
  IN [score |-> Min(score, 100),
      reasons |-> (IF kev THEN <<[tag |-> "CISA KEV listed", n |-> 0]>> ELSE <<>>)
               \o (IF wild THEN <<[tag |-> "Exploited in the wild keyword", n |-> 0]>> ELSE <<>>)
               \o (IF poc THEN <<[tag |-> "PoC keyword", n |-> 0]>> ELSE <<>>)
               \o (IF hasEpss THEN <<[tag |-> "EPSS", n |-> epss[1]]>> ELSE <<>>)]

\* asset_criticality maps are functions from lowercase name to tenths
_criticality_boost(details, stack) ==
  LET svc == {stack.asset_criticality.services[s] :
                s \in details.service_hits \cap DOMAIN stack.asset_criticality.services}
      pkg == {stack.asset_criticality.packages[p] :
                p \in (details.direct_package_hits \cup details.transitive_package_hits)
                        \cap DOMAIN stack.asset_criticality.packages}
      all == {w \in svc \cup pkg : w # 0} \cup {0}
  IN CHOOSE b \in all : \A w \in all : w <= b

\* _score_relevance without the service tier
_score_relevance_mut(match, stack) ==
  LET details == match.details
      base == IF details.direct_package_hits # {}
                THEN [score |-> 100, reason |-> "Direct dependency match"]
              ELSE IF details.transitive_package_hits # {}
                THEN [score |-> 70, reason |-> "Transitive dependency match"]
              ELSE IF details.cloud_hits # {} THEN [score |-> 50, reason |-> "Cloud match"]
              ELSE IF details.keyword_hits # {} THEN [score |-> 35, reason |-> "Keyword match"]
              ELSE IF details.language_hits # {} THEN [score |-> 25, reason |-> "Language match"]
              ELSE [score |-> 0, reason |-> ""]
      criticality_boost == _criticality_boost(details, stack)
  IN [score |-> IF criticality_boost # 0 THEN Min(100, base.score + criticality_boost)
                ELSE base.score,
      reasons |-> (IF base.reason # "" THEN <<[tag |-> base.reason, n |-> 0]>> ELSE <<>>)
               \o (IF criticality_boost # 0 THEN <<[tag |-> "Critical asset boost", n |-> 0]>>
                   ELSE <<>>)]

_score_relevance(match, stack) ==
  LET details == match.details
      base == IF details.direct_package_hits # {}
                THEN [score |-> 100, reason |-> "Direct dependency match"]
              ELSE IF details.transitive_package_hits # {}
                THEN [score |-> 70, reason |-> "Transitive dependency match"]
              ELSE IF details.service_hits # {} THEN [score |-> 60, reason |-> "Service match"]
              ELSE IF details.cloud_hits # {} THEN [score |-> 50, reason |-> "Cloud match"]
              ELSE IF details.keyword_hits # {} THEN [score |-> 35, reason |-> "Keyword match"]
              ELSE IF details.language_hits # {} THEN [score |-> 25, reason |-> "Language match"]
              ELSE [score |-> 0, reason |-> ""]
      criticality_boost == _criticality_boost(details, stack)
  IN [score |-> IF criticality_boost # 0 THEN Min(100, base.score + criticality_boost)
                ELSE base.score,
      reasons |-> (IF base.reason # "" THEN <<[tag |-> base.reason, n |-> 0]>> ELSE <<>>)
               \o (IF criticality_boost # 0 THEN <<[tag |-> "Critical asset boost", n |-> 0]>>
                   ELSE <<>>)]

\* _score_recency that takes five points a day instead of three
_score_recency_mut(item, clock) ==
  LET age_days == Max(0, clock - item.published)
      score == Max(0, 100 - age_days * 5)
  IN IF score <= 0 THEN [score |-> 0, reason |-> <<>>]
     ELSE [score |-> score, reason |-> <<[tag |-> "Recency", n |-> Ceil(age_days)]>>]

\* clock is datetime.now(); timestamps are whole days
_score_recency(item, clock) ==
  LET age_days == Max(0, clock - item.published)
      score == Max(0, 100 - age_days * 3)
  IN IF score <= 0 THEN [score |-> 0, reason |-> <<>>]
     ELSE [score |-> score, reason |-> <<[tag |-> "Recency", n |-> Ceil(age_days)]>>]

_source_boost(item, scoring) ==
  IF Lower(item.source) \in {Lower(scoring.prefer_sources[i]) : i \in DOMAIN scoring.prefer_sources}
  THEN 3 ELSE 0

\* _priority_for_score with > in place of >=
_priority_for_score_mut(score, scoring) ==
  IF score > scoring.thresholds.P0 THEN "P0"
  ELSE IF score > scoring.thresholds.P1 THEN "P1"
  ELSE IF score > scoring.thresholds.P2 THEN "P2"
  ELSE "P3"

_priority_for_score(score, scoring) ==
  IF score >= scoring.thresholds.P0 THEN "P0"
  ELSE IF score >= scoring.thresholds.P1 THEN "P1"
  ELSE IF score >= scoring.thresholds.P2 THEN "P2"
  ELSE "P3"

score_alert(item, match, scoring, stack, clock) ==
  IF ~scoring.enabled
  THEN [score |-> 0, priority |-> "P3", rationale |-> <<[tag |-> "Scoring disabled", n |-> 0]>>]
  ELSE LET sev == _score_severity(item)
           exp == _score_exploitability(item, scoring)
           rel == _score_relevance(match, stack)
           rec == _score_recency(item, clock)
           weights == scoring.weights
           weighted100 == sev.score * weights.severity
                            + exp.score * weights.exploitability
                            + rel.score * weights.relevance
                            + rec.score * weights.recency
           boost == _source_boost(item, scoring)
           total == Min(100, RoundDiv(weighted100 + 100 * boost, 100))
       IN [score |-> total,
           priority |-> _priority_for_score(total, scoring),
           rationale |-> sev.reason \o exp.reasons \o rel.reasons \o rec.reason
                           \o (IF boost # 0
                               THEN <<[tag |-> "Preferred source boost", n |-> boost]>>
                               ELSE <<>>)]

(***************************************************************************)
(* src/decisions.py                                                        *)
(***************************************************************************)
MSRC == <<"m","s","r","c">>
OSV == <<"o","s","v">>
GITHUB == <<"g","i","t","h","u","b">>
NVD == <<"n","v","d">>

TRUSTED_SOURCES == {CISA, MSRC, OSV, GITHUB}

EXPLOIT_PHRASES ==
  << <<"e","x","p","l","o","i","t","e","d"," ","i","n"," ","t","h","e"," ","w","i","l","d">>,
     <<"a","c","t","i","v","e","l","y"," ","e","x","p","l","o","i","t","e","d">>,
     <<"a","c","t","i","v","e"," ","e","x","p","l","o","i","t","a","t","i","o","n">>,
     <<"i","n"," ","t","h","e"," ","w","i","l","d">> >>

CAMPAIGN_PHRASES ==
  << <<"t","h","r","e","a","t"," ","a","c","t","o","r">>,
     <<"a","c","t","i","v","e"," ","c","a","m","p","a","i","g","n">>,
     <<"c","a","m","p","a","i","g","n">>,
     <<"a","p","t">>,
     <<"r","a","n","s","o","m","w","a","r","e">> >>

\* _match_always_page that forgets keyword.strip()
_match_always_page_mut(item, match, always_page) ==
  IF ~match.is_relevant \/ always_page = <<>> THEN None
  ELSE LET text_bits == <<item.title, item.description,
                          Join(item.affected_packages), Join(item.affected_services)>>
           haystack == Lower(Join(SelectSeq(text_bits, LAMBDA bit : bit # <<>>)))
           hit == {i \in DOMAIN always_page :
                     LET needle == Lower(always_page[i])
                     IN needle # <<>> /\ Contains(haystack, needle)}
       IN IF hit = {} THEN None
          ELSE Some(always_page[CHOOSE i \in hit : \A j \in hit : i <= j])

\* the matched keyword as an optional value
_match_always_page(item, match, always_page) ==
  IF ~match.is_relevant \/ always_page = <<>> THEN None
  ELSE LET text_bits == <<item.title, item.description,
                          Join(item.affected_packages), Join(item.affected_services)>>
           haystack == Lower(Join(SelectSeq(text_bits, LAMBDA bit : bit # <<>>)))
           hit == {i \in DOMAIN always_page :
                     LET needle == Lower(Strip(always_page[i]))
                     IN needle # <<>> /\ Contains(haystack, needle)}
       IN IF hit = {} THEN None
          ELSE Some(always_page[CHOOSE i \in hit : \A j \in hit : i <= j])

\* _confidence_signal that compares the source without lower()
_confidence_signal_mut(item) ==
  LET text == Lower(Fmt2(item.title, item.description))
  IN IF item.source = CISA \/ KEV \in {Lower(item.tags[i]) : i \in DOMAIN item.tags}
       THEN [confidence |-> TRUE, reason |-> "CISA KEV"]
     ELSE IF \E i \in DOMAIN EXPLOIT_PHRASES : Contains(text, EXPLOIT_PHRASES[i])
       THEN [confidence |-> TRUE, reason |-> "exploited in the wild"]
     ELSE IF \E i \in DOMAIN CAMPAIGN_PHRASES : Contains(text, CAMPAIGN_PHRASES[i])
       THEN [confidence |-> TRUE, reason |-> "active campaign or threat actor mention"]
     ELSE IF item.source \in TRUSTED_SOURCES
       THEN [confidence |-> TRUE, reason |-> "trusted source"]
     ELSE [confidence |-> FALSE, reason |-> "no high-confidence signal"]

_confidence_signal(item) ==
  LET text == Lower(Fmt2(item.title, item.description))
  IN IF IsKev(item) THEN [confidence |-> TRUE, reason |-> "CISA KEV"]
     ELSE IF \E i \in DOMAIN EXPLOIT_PHRASES : Contains(text, EXPLOIT_PHRASES[i])
       THEN [confidence |-> TRUE, reason |-> "exploited in the wild"]
     ELSE IF \E i \in DOMAIN CAMPAIGN_PHRASES : Contains(text, CAMPAIGN_PHRASES[i])
       THEN [confidence |-> TRUE, reason |-> "active campaign or threat actor mention"]
     ELSE IF Lower(item.source) \in TRUSTED_SOURCES
       THEN [confidence |-> TRUE, reason |-> "trusted source"]
     ELSE [confidence |-> FALSE, reason |-> "no high-confidence signal"]

\* _relevance_level that leaves the cloud hits out of "high"
_relevance_level_mut(match) ==
  LET details == match.details
  IN IF details.direct_package_hits # {} \/ details.service_hits # {} THEN "high"
     ELSE IF details.transitive_package_hits # {} \/ details.alias_hits # {} THEN "medium"
     ELSE "low"

_relevance_level(match) ==
  LET details == match.details
  IN IF details.direct_package_hits # {} \/ details.service_hits # {} \/ details.cloud_hits # {}
       THEN "high"
     ELSE IF details.transitive_package_hits # {} \/ details.alias_hits # {} THEN "medium"
     ELSE "low"

\* classify_alert that pages in normal mode only with both high severity
\* and a confidence signal
classify_alert_mut_normal(item, match, score, mode, always_page, mode_explicit) ==
  LET matched_keyword == _match_always_page(item, match, always_page)
      signal == _confidence_signal(item)
      confidence == signal.confidence
      relevance_level == _relevance_level(match)
      high_severity == score.priority \in {"P0", "P1"}
      decision(immediate, reason) ==
        [immediate |-> immediate, reason |-> reason, keyword |-> None,
         mode |-> mode, matched_always_page |-> FALSE]
  IN IF matched_keyword # None
       THEN [immediate |-> TRUE, reason |-> <<"matched always_page keyword">>,
             keyword |-> matched_keyword, mode |-> mode, matched_always_page |-> TRUE]
     ELSE IF ~mode_explicit
       THEN decision(TRUE, <<"relevant to stack (legacy default)">>)
     ELSE IF mode = "quiet"
       THEN IF confidence THEN decision(TRUE, <<"relevant", signal.reason>>)
            ELSE decision(FALSE, <<"quiet mode: relevant but no high-confidence signal">>)
     ELSE IF mode = "loud"
       THEN decision(TRUE, <<"relevant to stack (loud mode)">>)
     ELSE IF relevance_level \in {"medium", "low"}
       THEN decision(FALSE, <<"normal mode: lower relevance routed to digest">>)
     ELSE IF high_severity /\ confidence
       THEN decision(TRUE, <<"relevant">>
                             \o (IF high_severity THEN <<"high severity">> ELSE <<>>)
                             \o (IF confidence THEN <<signal.reason>> ELSE <<>>))
     ELSE decision(FALSE, <<"normal mode: relevant but not severe/high-confidence">>)

\* classify_alert that tests the mode before mode_explicit
classify_alert_mut_legacy(item, match, score, mode, always_page, mode_explicit) ==
  LET matched_keyword == _match_always_page(item, match, always_page)
      signal == _confidence_signal(item)
      confidence == signal.confidence
      relevance_level == _relevance_level(match)
      high_severity == score.priority \in {"P0", "P1"}
      decision(immediate, reason) ==
        [immediate |-> immediate, reason |-> reason, keyword |-> None,
         mode |-> mode, matched_always_page |-> FALSE]
  IN IF matched_keyword # None
       THEN [immediate |-> TRUE, reason |-> <<"matched always_page keyword">>,
             keyword |-> matched_keyword, mode |-> mode, matched_always_page |-> TRUE]
     ELSE IF mode = "quiet"
       THEN IF confidence THEN decision(TRUE, <<"relevant", signal.reason>>)
            ELSE decision(FALSE, <<"quiet mode: relevant but no high-confidence signal">>)
     ELSE IF ~mode_explicit
       THEN decision(TRUE, <<"relevant to stack (legacy default)">>)
     ELSE IF mode = "loud"
       THEN decision(TRUE, <<"relevant to stack (loud mode)">>)
     ELSE IF relevance_level \in {"medium", "low"}
       THEN decision(FALSE, <<"normal mode: lower relevance routed to digest">>)
     ELSE IF high_severity \/ confidence
       THEN decision(TRUE, <<"relevant">>
                             \o (IF high_severity THEN <<"high severity">> ELSE <<>>)
                             \o (IF confidence THEN <<signal.reason>> ELSE <<>>))
     ELSE decision(FALSE, <<"normal mode: relevant but not severe/high-confidence">>)

\* classify_alert that tests the relevance level before the loud mode
classify_alert_mut_loud(item, match, score, mode, always_page, mode_explicit) ==
  LET matched_keyword == _match_always_page(item, match, always_page)
      signal == _confidence_signal(item)
      confidence == signal.confidence
      relevance_level == _relevance_level(match)
      high_severity == score.priority \in {"P0", "P1"}
      decision(immediate, reason) ==
        [immediate |-> immediate, reason |-> reason, keyword |-> None,
         mode |-> mode, matched_always_page |-> FALSE]
  IN IF matched_keyword # None
       THEN [immediate |-> TRUE, reason |-> <<"matched always_page keyword">>,
             keyword |-> matched_keyword, mode |-> mode, matched_always_page |-> TRUE]
     ELSE IF ~mode_explicit
       THEN decision(TRUE, <<"relevant to stack (legacy default)">>)
     ELSE IF mode = "quiet"
       THEN IF confidence THEN decision(TRUE, <<"relevant", signal.reason>>)
            ELSE decision(FALSE, <<"quiet mode: relevant but no high-confidence signal">>)
     ELSE IF relevance_level \in {"medium", "low"}
       THEN decision(FALSE, <<"normal mode: lower relevance routed to digest">>)
     ELSE IF mode = "loud"
       THEN decision(TRUE, <<"relevant to stack (loud mode)">>)
     ELSE IF high_severity \/ confidence
       THEN decision(TRUE, <<"relevant">>
                             \o (IF high_severity THEN <<"high severity">> ELSE <<>>)
                             \o (IF confidence THEN <<signal.reason>> ELSE <<>>))
     ELSE decision(FALSE, <<"normal mode: relevant but not severe/high-confidence">>)

\* reason is the sequence of the parts joined by " + "; keyword is the
\* always_page keyword the reason names
classify_alert(item, match, score, mode, always_page, mode_explicit) ==
  LET matched_keyword == _match_always_page(item, match, always_page)
      signal == _confidence_signal(item)
      confidence == signal.confidence
      relevance_level == _relevance_level(match)
      high_severity == score.priority \in {"P0", "P1"}
      decision(immediate, reason) ==
        [immediate |-> immediate, reason |-> reason, keyword |-> None,
         mode |-> mode, matched_always_page |-> FALSE]
  IN IF matched_keyword # None
       THEN [immediate |-> TRUE, reason |-> <<"matched always_page keyword">>,
             keyword |-> matched_keyword, mode |-> mode, matched_always_page |-> TRUE]
     ELSE IF ~mode_explicit
       THEN decision(TRUE, <<"relevant to stack (legacy default)">>)
     ELSE IF mode = "quiet"
       THEN IF confidence THEN decision(TRUE, <<"relevant", signal.reason>>)
            ELSE decision(FALSE, <<"quiet mode: relevant but no high-confidence signal">>)
     ELSE IF mode = "loud"
       THEN decision(TRUE, <<"relevant to stack (loud mode)">>)
     ELSE IF relevance_level \in {"medium", "low"}
       THEN decision(FALSE, <<"normal mode: lower relevance routed to digest">>)
     ELSE IF high_severity \/ confidence
       THEN decision(TRUE, <<"relevant">>
                             \o (IF high_severity THEN <<"high severity">> ELSE <<>>)
                             \o (IF confidence THEN <<signal.reason>> ELSE <<>>))
     ELSE decision(FALSE, <<"normal mode: relevant but not severe/high-confidence">>)

(***************************************************************************)
(* Bounds of the model                                                     *)
(***************************************************************************)
\* the clock when the program starts, and the last clock value explored
Now0 == 31
MaxNow == 33
\* poll cycles explored in one run
MaxCycles == 2
\* largest max_notifications_per_run explored
MaxCap == 2
\* longest sleep between two cycles, in days
MaxSleep == 1

(***************************************************************************)
(* The operator's configuration (src/config.py) and the dependency graph   *)
(***************************************************************************)
GO == <<"g","o">>
RCE == <<"r","c","e">>
PY_X == <<"P","y","_","X">>
LIBB == <<"l","i","b","b">>
URLZ == <<"u","r","l","z">>

\* StackConfig; match.mode is "strict" or "loose" (_load_match)
Stack(mode) ==
  [cloud |-> <<AWS>>,
   languages |-> <<GO>>,
   packages |-> << <<PIP, <<PY_X, LIBB>> >> >>,
   services |-> <<KUBERNETES>>,
   keywords |-> <<RCE>>,
   match |-> [mode |-> mode, synonyms |-> TRUE, normalize_names |-> TRUE],
   synonyms |-> <<>>,
   asset_criticality |-> [services |-> <<>>, packages |-> <<>>]]

\* ScoringConfig with the defaults of _load_scoring
DefaultScoring ==
  [enabled |-> TRUE,
   weights |-> [severity |-> 45, exploitability |-> 25, relevance |-> 20, recency |-> 10],
   thresholds |-> [P0 |-> 85, P1 |-> 70, P2 |-> 50, P3 |-> 0],
   prefer_sources |-> <<>>,
   keywords |-> [exploited_in_wild |-> <<>>, poc |-> <<>>]]

\* DependencyGraph produced by the dependency loader
Dependencies == [direct |-> <<>>, transitive |-> << <<PIP, <<URLZ>> >> >>]

\* the iteration order of the alias sets
AliasOrder ==
  <<K8S, AKS, EKS, GKE, AZURE_AD, AZURE_AD_DASH, ENTRA, AMAZON_WEB_SERVICES, AMAZON_AWS>>

\* Config: the settings that _poll_once and main read; notifiers is the list
\* build_notifiers returns, dry_run and once are the command-line flags
Configs ==
  {[dry_run |-> d, once |-> o, notifiers |-> n,
    settings |-> [include_low_severity |-> low, min_cvss_score |-> None,
                  max_notifications_per_run |-> cap, max_results_per_feed |-> 200],
    stack |-> Stack(m), scoring |-> DefaultScoring] :
     d \in BOOLEAN, o \in {FALSE}, n \in {<<>>, <<"webhook">>, <<"discord", "webhook">>, <<"slack">>},
     low \in BOOLEAN, cap \in 0..MaxCap, m \in {"loose"}}

(***************************************************************************)
(* What the feed endpoints serve                                           *)
(***************************************************************************)
NoRaw == <<>>

\* the KEV catalog: entries of payload["vulnerabilities"]
CISA_PAYLOAD ==
  << [cveID |-> <<"C","1">>, dateAdded |-> Some(30),
      vulnerabilityName |-> <<"k","8","s"," ","b","u","g">>, shortDescription |-> <<>>],
     [cveID |-> <<"C","2">>, dateAdded |-> None,
      vulnerabilityName |-> <<"m","i","s","c">>, shortDescription |-> <<>>] >>

\* api.osv.dev: the vulns served for a package name
OSV_VULN ==
  [id |-> <<"O","1">>, published |-> Some(31), summary |-> <<"b","a","d">>, details |-> <<>>]

OSV_DB(package) == IF package \in {PY_X, LIBB} THEN <<OSV_VULN>> ELSE <<>>

\* services.nvd.nist.gov: the cve records
NVD_DB ==
  << [id |-> <<"N","1">>, published |-> 31, description |-> <<"a","w","s"," ","r","c","e","."," ","x">>,
      baseScore |-> Some(98), baseSeverity |-> <<"C","R","I","T","I","C","A","L">>],
     [id |-> <<"N","2">>, published |-> 30, description |-> <<"A","W","S"," ","l","e","a","k">>,
      baseScore |-> Some(31), baseSeverity |-> <<"L","O","W">>] >>

(***************************************************************************)
(* src/feeds                                                               *)
(***************************************************************************)
FeedItem(id, source, title, description, published, severity, cvss_score, affected_packages, ecosystems) ==
  [id |-> id, source |-> source, title |-> title, description |-> description,
   published |-> published, severity |-> severity, cvss_score |-> cvss_score,
   affected_packages |-> affected_packages, raw_data |-> NoRaw, ecosystems |-> ecosystems,
   affected_services |-> <<>>, affected_cloud |-> <<>>, tags |-> <<>>]

\* since or (now - 1 day)
StartOf(since, clock) == IF since # None THEN since[1] ELSE clock - 1

\* _parse_date / _parse_datetime of a feed: a missing date is now
DateOr(value, clock) == IF value # None THEN value[1] ELSE clock

\* cisa._parse_items
cisa_parse_items(payload, since, clock) ==
  LET item(entry) ==
        FeedItem(<<"c","i","s","a",":">> \o entry.cveID, CISA,
                 entry.cveID \o <<":", " ">>
                   \o (IF entry.vulnerabilityName # <<>> THEN entry.vulnerabilityName
                       ELSE entry.cveID),
                 entry.shortDescription, DateOr(entry.dateAdded, clock), <<>>, None, <<>>, <<>>)
      kept == SelectSeq(payload,
                LAMBDA entry : entry.cveID # <<>> /\ ~(DateOr(entry.dateAdded, clock) < since))
  IN [i \in 1..Len(kept) |-> item(kept[i])]

CISAFeed_fetch_recent(since, clock) == cisa_parse_items(CISA_PAYLOAD, StartOf(since, clock), clock)

\* osv._parse_vuln, an optional item
_parse_vuln(vuln, package, since, ecosystem, clock) ==
  IF vuln.id = <<>> \/ DateOr(vuln.published, clock) < since THEN None
  ELSE Some(FeedItem(<<"o","s","v",":">> \o vuln.id, OSV,
                     IF vuln.summary # <<>> THEN vuln.id \o <<":", " ">> \o vuln.summary
                     ELSE vuln.id,
                     IF vuln.details # <<>> THEN vuln.details ELSE vuln.summary,
                     DateOr(vuln.published, clock), <<>>, None, <<package>>, <<ecosystem>>))

\* the (ecosystem, package) queries of OSVFeed.fetch_recent, in order
RECURSIVE OSVQueries(_)
OSVQueries(packages) ==
  IF packages = <<>> THEN <<>>
  ELSE [k \in DOMAIN packages[1][2] |-> <<Lower(packages[1][1]), packages[1][2][k]>>]
         \o OSVQueries(Tail(packages))

RECURSIVE OSVCollect(_, _, _, _)
OSVCollect(queries, start, clock, max_results) ==
  IF queries = <<>> THEN <<>>
  ELSE LET vulns == OSV_DB(queries[1][2])
           parsed == [k \in DOMAIN vulns |->
                        _parse_vuln(vulns[k], queries[1][2], start, queries[1][1], clock)]
           found == SelectSeq(parsed, LAMBDA o : o # None)
           here == [k \in DOMAIN found |-> found[k][1]]
       IN here \o OSVCollect(Tail(queries), start, clock, max_results)

OSVFeed_fetch_recent(packages, since, clock, max_results) ==
  LET all == OSVCollect(OSVQueries(packages), StartOf(since, clock), clock, max_results)
  IN SubSeq(all, 1, Min(Len(all), max_results))

\* description.split(".", 1)[0]
BeforeDot(s) ==
  LET dots == {i \in DOMAIN s : s[i] = "."}
  IN IF dots = {} THEN s ELSE SubSeq(s, 1, (CHOOSE i \in dots : \A j \in dots : i <= j) - 1)

\* nvd._parse_items
nvd_parse_items(vulnerabilities) ==
  LET item(cve) ==
        FeedItem(cve.id, NVD,
                 IF cve.description # <<>>
                 THEN cve.id \o <<":", " ">> \o BeforeDot(cve.description) ELSE cve.id,
                 cve.description, cve.published, Lower(cve.baseSeverity), cve.baseScore,
                 <<>>, <<>>)
      kept == SelectSeq(vulnerabilities, LAMBDA cve : cve.id # <<>>)
  IN [i \in 1..Len(kept) |-> item(kept[i])]

\* the endpoint serves the records published in [pubStartDate, pubEndDate]
NVDFeed_fetch_recent(since, clock) ==
  nvd_parse_items(SelectSeq(NVD_DB,
    LAMBDA cve : StartOf(since, clock) <= cve.published /\ cve.published <= clock))

\* the feeds of _build_feeds, in its order
Feeds == <<"nvd", "cisa", "osv">>

fetch_recent(feed, config, since, clock) ==
  IF feed = "nvd" THEN NVDFeed_fetch_recent(since, clock)
  ELSE IF feed = "cisa" THEN CISAFeed_fetch_recent(since, clock)
  ELSE OSVFeed_fetch_recent(config.stack.packages, since, clock,
                            config.settings.max_results_per_feed)

(***************************************************************************)
(* src/state.py.  sent_items is a function from item id to timestamp.      *)
(***************************************************************************)
STATE_VERSION == 1
RETENTION_DAYS == 30

EmptyState == [last_poll |-> None, sent_items |-> <<>>, version |-> STATE_VERSION]

mark_sent(state, item_id, clock) ==
  [state EXCEPT !.sent_items =
     [id \in DOMAIN state.sent_items \cup {item_id} |->
        IF id = item_id THEN clock ELSE state.sent_items[id]]]

\* was_sent that never finds the id
was_sent_mut(state, item_id) == FALSE

was_sent(state, item_id) == item_id \in DOMAIN state.sent_items

\* prune_sent that also drops the entries exactly at the cutoff
prune_sent_mut(state, clock) ==
  LET cutoff == clock - RETENTION_DAYS
      kept == {id \in DOMAIN state.sent_items : state.sent_items[id] > cutoff}
  IN [state EXCEPT !.sent_items = [id \in kept |-> state.sent_items[id]]]

prune_sent(state, clock) ==
  LET cutoff == clock - RETENTION_DAYS
      kept == {id \in DOMAIN state.sent_items : state.sent_items[id] >= cutoff}
  IN [state EXCEPT !.sent_items = [id \in kept |-> state.sent_items[id]]]

(***************************************************************************)
(* The state file.  A JSON value is a record [t, v]: t is its JSON type    *)
(* ("absent" for a missing key) and v its content: the timestamp of an     *)
(* ISO-8601 string, the value of an integer, the ids of a list, the        *)
(* id -> JSON value function of an object.                                 *)
(***************************************************************************)
JAbsent == [t |-> "absent", v |-> 0]
JNull == [t |-> "null", v |-> 0]
JIso(ts) == [t |-> "iso", v |-> ts]
JBadStr == [t |-> "badstr", v |-> 0]
JInt(k) == [t |-> "int", v |-> k]
JList(ids) == [t |-> "list", v |-> ids]
JDict(f) == [t |-> "dict", v |-> f]

FileMissing == [kind |-> "missing", last_poll |-> JAbsent, sent_items |-> JAbsent,
                version |-> JAbsent]
FileObject(last_poll, sent_items, version) ==
  [kind |-> "object", last_poll |-> last_poll, sent_items |-> sent_items, version |-> version]

ID_N1 == <<"N","1">>
ID_N2 == <<"N","2">>
ID_C1 == <<"c","i","s","a",":","C","1">>
ID_O1 == <<"o","s","v",":","O","1">>

\* a function from its pairs
FnOf(pairs) ==
  [k \in {p[1] : p \in pairs} |-> (CHOOSE p \in pairs : p[1] = k)[2]]

\* the state files the program is started on
Files ==
  { FileMissing,
    [FileMissing EXCEPT !.kind = "badjson"],
    [FileMissing EXCEPT !.kind = "nonobject"],
    FileObject(JNull,
               JDict(FnOf({<<ID_N1, JIso(Now0 - RETENTION_DAYS - 1)>>,
                           <<ID_C1, JIso(Now0 - RETENTION_DAYS)>>,
                           <<ID_O1, JIso(Now0 - RETENTION_DAYS + 1)>>})),
               JInt(1)),
    FileObject(JIso(Now0), JList(<<ID_N2>>), JAbsent),
    FileObject(JBadStr, JDict(<<>>), JInt(1)),
    FileObject(JNull, JDict(<<>>), JBadStr),
    FileObject(JInt(5), JDict(FnOf({<<ID_N1, JBadStr>>, <<ID_C1, JInt(5)>>})), JInt(1)),
    FileObject(JAbsent, JBadStr, JInt(1)) }

\* state._parse_datetime: the timestamp, or ValueError
ParseOk(j) == j.t = "iso"

\* state._to_iso
_to_iso(ts) == JIso(ts)

_parse_sent_items(value, clock) ==
  IF value.t \in {"absent", "null"} THEN <<>>
  ELSE IF value.t = "list" THEN [id \in Range(value.v) |-> clock]
  ELSE IF value.t = "dict"
    THEN [id \in DOMAIN value.v |->
            IF value.v[id].t = "iso" THEN value.v[id].v ELSE clock]
  ELSE <<>>

Raised(error) == [ok |-> FALSE, error |-> error, state |-> EmptyState]
Returned(state) == [ok |-> TRUE, error |-> "", state |-> state]

\* load_state: the State it returns or the exception it raises
load_state(f, clock) ==
  IF f.kind = "missing" THEN Returned(EmptyState)
  ELSE IF f.kind = "badjson" THEN Raised("JSONDecodeError")
  ELSE IF f.kind # "object" THEN Returned(EmptyState)
  ELSE IF f.last_poll.t = "badstr" THEN Raised("ValueError")
  ELSE IF f.version.t \in {"badstr", "null", "list", "dict"} THEN Raised("ValueError")
  ELSE Returned([last_poll |-> IF f.last_poll.t = "iso" THEN Some(f.last_poll.v) ELSE None,
                 sent_items |-> _parse_sent_items(f.sent_items, clock),
                 version |-> IF f.version.t = "absent" THEN 1 ELSE f.version.v])

\* save_state: the payload written to the file
save_state(state) ==
  FileObject(IF state.last_poll # None THEN _to_iso(state.last_poll[1]) ELSE JNull,
             JDict([id \in DOMAIN state.sent_items |-> _to_iso(state.sent_items[id])]),
             JInt(state.version))

(***************************************************************************)
(* src/main.py                                                             *)
(***************************************************************************)
_is_low_severity(item) == item.cvss_score # None /\ item.cvss_score[1] < 40

_below_min_cvss(item, min_score) ==
  min_score # None /\ item.cvss_score # None /\ item.cvss_score[1] < min_score[1]

PriorityOrder(priority) ==
  IF priority = "P0" THEN 0 ELSE IF priority = "P1" THEN 1
  ELSE IF priority = "P2" THEN 2 ELSE IF priority = "P3" THEN 3 ELSE 9

\* a sort key that ignores the tier
_priority_sort_mut(priority, published) == <<0, published>>

\* the sort key of a candidate
_priority_sort(priority, published) == <<PriorityOrder(priority), published>>

\* tuple comparison of two sort keys
KeyLess(a, b) == a[1] < b[1] \/ (a[1] = b[1] /\ a[2] < b[2])

\* list.sort and sorted are stable: an element goes after the elements whose
\* key is not greater than its own.  keys is the sequence of the sort keys;
\* the result is the sequence of the positions, in sorted order.
RECURSIVE InsertStable(_, _, _)
InsertStable(sorted, x, keys) ==
  IF sorted = <<>> THEN <<x>>
  ELSE IF KeyLess(keys[x], keys[sorted[1]]) THEN <<x>> \o sorted
  ELSE <<sorted[1]>> \o InsertStable(Tail(sorted), x, keys)

RECURSIVE StableOrder(_, _)
StableOrder(k, keys) ==
  IF k = 0 THEN <<>> ELSE InsertStable(StableOrder(k - 1, keys), k, keys)

StableSort(list, keys) ==
  LET order == StableOrder(Len(list), keys)
  IN [j \in 1..Len(list) |-> list[order[j]]]

\* sorted(items, key=lambda x: _normalize_dt(x.published))
SortByPublished(list) ==
  StableSort(list, [j \in 1..Len(list) |-> <<0, list[j].published>>])

\* candidates.sort(key=lambda entry: _priority_sort(...))
SortCandidates(list) ==
  StableSort(list, [j \in 1..Len(list) |->
                      _priority_sort(list[j].message.priority, list[j].message.published)])

\* build_notification_message: the fields of the message the model keeps
build_notification_message(item, score) ==
  [priority |-> score.priority, score |-> score.score, published |-> item.published]

\* pooling that stops at the first failed feed
RECURSIVE Pooled_mut(_, _)
Pooled_mut(feeds, res) ==
  IF feeds = <<>> THEN <<>>
  ELSE IF res[feeds[1]].exc THEN <<>>
  ELSE res[feeds[1]].items \o Pooled_mut(Tail(feeds), res)

\* items.extend(feed_result) over the results that are not exceptions
RECURSIVE Pooled(_, _)
Pooled(feeds, res) ==
  IF feeds = <<>> THEN <<>>
  ELSE (IF res[feeds[1]].exc THEN <<>> ELSE res[feeds[1]].items) \o Pooled(Tail(feeds), res)

VARIABLES
  pc,             \* where main is
  config,         \* the Config and the command-line flags
  file,           \* the state file
  state,          \* the State ledger
  now,            \* the clock
  cycle,          \* the number of the poll cycle
  results,        \* _poll_once: the result of gather, by feed
  items,          \* _poll_once: sorted(items), the list the first loop walks
  pos,            \* _poll_once: the position of the first loop
  matched_count,
  notified_count,
  candidates,
  evaluated,      \* the candidates in the order they were appended
  cand,           \* the position of the delivery loop
  notifier,       \* the position of the loop over the notifiers
  sent,
  sendLog         \* the calls of notifier.send made in this cycle

vars == <<pc, config, file, state, now, cycle, results, items, pos, matched_count,
          notified_count, candidates, evaluated, cand, notifier, sent, sendLog>>

pollVars == <<results, items, pos, matched_count, notified_count, candidates, evaluated,
              cand, notifier, sent, sendLog>>

Init ==
  /\ pc = "load_state"
  /\ config \in Configs
  /\ file \in Files
  /\ state = EmptyState
  /\ now = Now0
  /\ cycle = 1
  /\ results = <<>>
  /\ items = <<>>
  /\ pos = 1
  /\ matched_count = 0
  /\ notified_count = 0
  /\ candidates = <<>>
  /\ evaluated = <<>>
  /\ cand = 1
  /\ notifier = 1
  /\ sent = TRUE
  /\ sendLog = <<>>

\* main: state = load_state(config.settings.state_file)
LoadState ==
  /\ pc = "load_state"
  /\ LET r == load_state(file, now)
     IN /\ state' = r.state
        /\ pc' = IF r.ok THEN "check_notifiers" ELSE "crashed"
  /\ UNCHANGED <<config, file, now, cycle, pollVars>>

\* main without the notifier check
CheckNotifiers_mut ==
  /\ pc = "check_notifiers"
  /\ pc' = "poll"
  /\ UNCHANGED <<config, file, state, now, cycle, pollVars>>

\* main: SystemExit when there is no notifier and no --dry-run
CheckNotifiers ==
  /\ pc = "check_notifiers"
  /\ pc' = IF ~config.dry_run /\ config.notifiers = <<>> THEN "fatal" ELSE "poll"
  /\ UNCHANGED <<config, file, state, now, cycle, pollVars>>

\* _poll_once: gather the feeds, pool and sort the items
Fetch ==
  /\ pc = "poll"
  /\ \E failed \in SUBSET Range(Feeds) :
       /\ results' = [f \in Range(Feeds) |->
                        IF f \in failed THEN [exc |-> TRUE, items |-> <<>>]
                        ELSE [exc |-> FALSE,
                              items |-> fetch_recent(f, config, state.last_poll, now)]]
       /\ items' = SortByPublished(Pooled(Feeds, results'))
  /\ pos' = 1
  /\ matched_count' = 0
  /\ notified_count' = 0
  /\ candidates' = <<>>
  /\ evaluated' = <<>>
  /\ cand' = 1
  /\ notifier' = 1
  /\ sent' = TRUE
  /\ sendLog' = <<>>
  /\ pc' = "evaluate"
  /\ UNCHANGED <<config, file, state, now, cycle>>

\* the first loop without the relevance test
Skips_mut(item, match) ==
  \/ was_sent(state, item.id)
  \/ ~config.settings.include_low_severity /\ _is_low_severity(item)
  \/ _below_min_cvss(item, config.settings.min_cvss_score)

\* the first loop skips the item; match is calculate_relevance(item, ...)
Skips(item, match) ==
  \/ was_sent(state, item.id)
  \/ ~config.settings.include_low_severity /\ _is_low_severity(item)
  \/ _below_min_cvss(item, config.settings.min_cvss_score)
  \/ ~match.is_relevant

\* the candidate the first loop appends for an item
Candidate(item, match) ==
  [message |-> build_notification_message(
                 item, score_alert(item, match, config.scoring, config.stack, now)),
   item |-> item]

\* _poll_once: one iteration of the loop over sorted(items)
Evaluate ==
  /\ pc = "evaluate"
  /\ pos <= Len(items)
  /\ \E match \in {calculate_relevance(items[pos], config.stack, Dependencies, AliasOrder)} :
       IF Skips(items[pos], match)
       THEN UNCHANGED <<state, matched_count, candidates>>
       ELSE /\ matched_count' = matched_count + 1
            /\ IF config.dry_run
               THEN /\ state' = mark_sent(state, items[pos].id, now)
                    /\ UNCHANGED candidates
               ELSE /\ candidates' = Append(candidates, Candidate(items[pos], match))
                    /\ UNCHANGED state
  /\ pos' = pos + 1
  /\ UNCHANGED <<pc, config, file, now, cycle, results, items, notified_count, evaluated,
                 cand, notifier, sent, sendLog>>

\* _poll_once: the first loop is over; sort the candidates
EndEvaluate ==
  /\ pc = "evaluate"
  /\ pos > Len(items)
  /\ IF ~config.dry_run /\ candidates # <<>>
     THEN /\ candidates' = SortCandidates(candidates)
          /\ evaluated' = candidates
          /\ pc' = "deliver"
     ELSE /\ UNCHANGED <<candidates, evaluated>>
          /\ pc' = "finish"
  /\ UNCHANGED <<config, file, state, now, cycle, results, items, pos, matched_count,
                 notified_count, cand, notifier, sent, sendLog>>

\* the cap test after a successful delivery
CapReached(count) == count >= config.settings.max_notifications_per_run

\* sent = success: an earlier failure is forgotten
AllSent_mut(before, success) == success

\* sent = sent and success
AllSent(before, success) == before /\ success

\* what notifier.send(message, metadata) can do: return True or False, or
\* raise.  SlackNotifier.send takes (item, reasons) and reads item.severity,
\* which the NotificationMessage it is given does not have: it always raises.
SendOutcomes(kind) ==
  IF kind = "slack" THEN {"raise"} ELSE {"True", "False", "raise"}

\* _poll_once: one notifier.send of the delivery loop.  The call takes d
\* days and returns True or False or raises; an exception counts as False.
Deliver ==
  /\ pc = "deliver"
  /\ cand <= Len(candidates)
  /\ notifier <= Len(config.notifiers)
  /\ \E outcome \in SendOutcomes(config.notifiers[notifier]), d \in 0..1 :
       LET success == outcome = "True"
           all == AllSent(sent, success)
           last == notifier = Len(config.notifiers)
           marked == last /\ all
           stop == marked /\ CapReached(notified_count + 1)
       IN /\ now + d <= MaxNow
          /\ now' = now + d
          /\ sendLog' = Append(sendLog, [cand |-> cand, notifier |-> notifier,
                                         success |-> success])
          /\ state' = IF marked THEN mark_sent(state, candidates[cand].item.id, now')
                      ELSE state
          /\ notified_count' = IF marked THEN notified_count + 1 ELSE notified_count
          /\ notifier' = IF last THEN 1 ELSE notifier + 1
          /\ cand' = IF last /\ ~stop THEN cand + 1 ELSE cand
          /\ sent' = IF last THEN TRUE ELSE all
          /\ pc' = IF stop \/ (last /\ cand = Len(candidates)) THEN "finish" ELSE "deliver"
  /\ UNCHANGED <<config, file, cycle, results, items, pos, matched_count, candidates,
                 evaluated>>

\* _poll_once: state.last_poll = now; prune_sent(state)
Finish ==
  /\ pc = "finish"
  /\ state' = prune_sent([state EXCEPT !.last_poll = Some(now)], now)
  /\ pc' = "save_state"
  /\ UNCHANGED <<config, file, now, cycle, pollVars>>

\* main: save_state, then leave (--once) or sleep
SaveState ==
  /\ pc = "save_state"
  /\ file' = save_state(state)
  /\ pc' = IF config.once THEN "exit" ELSE "sleep"
  /\ UNCHANGED <<config, state, now, cycle, pollVars>>

\* main: asyncio.sleep(poll_interval_minutes * 60), then the next cycle
Sleep ==
  /\ pc = "sleep"
  /\ cycle < MaxCycles
  /\ \E d \in 1..MaxSleep : now + d <= MaxNow /\ now' = now + d
  /\ cycle' = cycle + 1
  /\ pc' = "poll"
  /\ UNCHANGED <<config, file, state, pollVars>>

Next ==
  \/ LoadState
  \/ CheckNotifiers
  \/ Fetch
  \/ Evaluate
  \/ EndEvaluate
  \/ Deliver
  \/ Finish
  \/ SaveState
  \/ Sleep

Spec == Init /\ [][Next]_vars

(***************************************************************************)
(* Callers of the pure functions (src/tests): the arguments of one call    *)
(* are held in config, the returned value in results; the other variables  *)
(* of the poll loop stay as constructed.                                   *)
(***************************************************************************)
idleVars == <<file, state, now, cycle, items, pos, matched_count, notified_count, candidates, evaluated, cand, notifier, sent, sendLog>>

\* the variables a caller of a pure function does not use
IdleInit ==
  /\ file = FileMissing
  /\ state = EmptyState
  /\ now = Now0
  /\ cycle = 1
  /\ items = <<>>
  /\ pos = 1
  /\ matched_count = 0
  /\ notified_count = 0
  /\ candidates = <<>>
  /\ evaluated = <<>>
  /\ cand = 1
  /\ notifier = 1
  /\ sent = TRUE
  /\ sendLog = <<>>

\* the texts the callers pass: titles, descriptions, sources, tags, package
\* and service names, and always_page keywords
Txt ==
  [TXT_AB |-> <<"a","b">>,
   TXT_CD |-> <<"c","d">>,
   TXT_IN_THE_WILD |-> <<"S","e","e","n"," ","I","n"," ","T","h","e"," ","W","i","l","d">>,
   TXT_XAPT |-> <<"x","a","p","t">>,
   SRC_CISA_UPPER |-> <<"C","I","S","A">>,
   SRC_OSV_MIXED |-> <<"O","s","v">>,
   TAG_KEV_UPPER |-> <<"K","E","V">>,
   PKG_P |-> <<"p">>,
   PKG_Q |-> <<"q">>,
   SVC_S |-> <<"s">>,
   KW_BLANK |-> <<" "," ">>,
   KW_AB_PADDED |-> <<" ","A","B"," ">>,
   KW_B_C |-> <<"b"," ","c">>,
   KW_ZZ |-> <<"z","z">>,
   KW_P_Q |-> <<"p"," ","q">>,
   TXT_K8S_ADVISORY |-> <<"K","8","s"," ","a","d","v","i","s","o","r","y">>,
   TXT_K8S_ISSUE |-> <<"k","8","s"," ","i","s","s","u","e">>,
   TXT_AKS_K8S |-> <<"a","k","s"," ","a","n","d"," ","K","8","s">>,
   TXT_LIBB_FIX |-> <<"f","i","x"," ","i","n"," ","l","i","b","b">>,
   PKG_PY_X_NORM |-> <<"p","y","-","x">>,
   ECO_PIP_UPPER |-> <<"P","I","P">>]

\* _make_item of the tests: a FeedItem with the fields classify_alert reads
MakeItem(source, title, description, tags, affected_packages, affected_services) ==
  [FeedItem(<<"t","e","s","t">>, source, title, description, Now0, <<>>, None, affected_packages, <<>>)
     EXCEPT !.tags = tags, !.affected_services = affected_services]

\* the titles and descriptions of the items classified
ClassifyTexts ==
  {<<Txt.TXT_AB, Txt.TXT_CD>>, <<Txt.TXT_IN_THE_WILD, <<>>>>, <<Txt.TXT_XAPT, Txt.TXT_CD>>, <<<<>>, <<>>>>}

\* the items classified: every source with every text, and the plain item
\* with a kev tag, with affected packages and with an affected service
ClassifyItems ==
  {MakeItem(src, t[1], t[2], <<>>, <<>>, <<>>) : src \in {NVD, Txt.SRC_CISA_UPPER, Txt.SRC_OSV_MIXED}, t \in ClassifyTexts}
    \cup {MakeItem(NVD, Txt.TXT_AB, Txt.TXT_CD, <<Txt.TAG_KEV_UPPER>>, <<>>, <<>>),
          MakeItem(NVD, Txt.TXT_AB, Txt.TXT_CD, <<>>, <<Txt.PKG_P, Txt.PKG_Q>>, <<>>),
          MakeItem(NVD, Txt.TXT_AB, Txt.TXT_CD, <<>>, <<>>, <<Txt.SVC_S>>)}

\* _make_match of the tests: a MatchResult with one kind of hit
MakeMatch(kind) ==
  [is_relevant |-> kind # "none",
   reasons |-> IF kind = "none" THEN {} ELSE {<<kind>>},
   details |-> [direct_package_hits |-> IF kind = "direct" THEN {LIBB} ELSE {},
                transitive_package_hits |-> IF kind = "transitive" THEN {URLZ} ELSE {},
                service_hits |-> IF kind = "service" THEN {KUBERNETES} ELSE {},
                cloud_hits |-> IF kind = "cloud" THEN {AWS} ELSE {},
                keyword_hits |-> IF kind = "keyword" THEN {RCE} ELSE {},
                language_hits |-> IF kind = "language" THEN {GO} ELSE {},
                alias_hits |-> IF kind = "alias" THEN {K8S} ELSE {}]]

MatchKinds == {"none", "direct", "transitive", "service", "cloud", "keyword", "language", "alias"}

\* AlertScore values, one per tier
ClassifyScores ==
  {[score |-> 90, priority |-> "P0"], [score |-> 75, priority |-> "P1"],
   [score |-> 55, priority |-> "P2"], [score |-> 5, priority |-> "P3"]}

\* urgency modes passed to classify_alert; "digest" is an unknown value
ClassifyModes == {"quiet", "normal", "loud", "digest"}

\* always_page lists: none, a blank keyword before a padded upper-case one,
\* a keyword that spans the end of the title and the start of the
\* description, a keyword of the joined packages, a keyword of the services
AlwaysPageLists ==
  {<<>>, <<Txt.KW_BLANK, Txt.KW_AB_PADDED>>, <<Txt.KW_B_C>>, <<Txt.KW_ZZ, Txt.KW_P_Q>>, <<Txt.KW_ZZ>>, <<Txt.SVC_S>>}

ClassifyArgs ==
  {[item |-> i, match |-> MakeMatch(k), score |-> sc, mode |-> m, always_page |-> ap,
    mode_explicit |-> e] :
     i \in ClassifyItems, k \in MatchKinds, sc \in ClassifyScores, m \in ClassifyModes,
     ap \in AlwaysPageLists, e \in BOOLEAN}

InitClassify ==
  /\ pc = "call"
  /\ config \in ClassifyArgs
  /\ results = <<>>
  /\ IdleInit

\* decision = classify_alert(item, match, score, mode, always_page, mode_explicit)
CallClassify ==
  /\ pc = "call"
  /\ results' = classify_alert(config.item, config.match, config.score, config.mode,
                               config.always_page, config.mode_explicit)
  /\ pc' = "return"
  /\ UNCHANGED <<config, idleVars>>

SpecClassify == InitClassify /\ [][CallClassify]_vars

\* the items scored: source, tags, cvss_score in tenths (below 0 and above 10
\* included), vendor severity, and a publication time days before the clock
\* (a negative age is a publication time in the future)
ScoreItems ==
  {[MakeItem(src, Txt.TXT_AB, Txt.TXT_CD, tags, <<>>, <<>>)
      EXCEPT !.cvss_score = cvss, !.severity = sev, !.published = Now0 - age] :
     src \in {CISA, NVD}, tags \in {<<>>, <<KEV>>},
     cvss \in {None, Some(-5), Some(0), Some(40), Some(98), Some(100), Some(120)},
     sev \in {<<>>, CRITICAL}, age \in {-2, 0, 15, 16, 40}}

\* ScoringConfig as _load_scoring builds it: weights are float(...) of what
\* the file holds (hundredths here), with no test of sign or size
ScoreConfigs ==
  {[DefaultScoring EXCEPT !.enabled = e, !.weights = w, !.prefer_sources = ps] :
     e \in BOOLEAN,
     w \in {DefaultScoring.weights,
            [DefaultScoring.weights EXCEPT !.severity = -100],
            [severity |-> 0, exploitability |-> 0, relevance |-> 0, recency |-> 0],
            [DefaultScoring.weights EXCEPT !.severity = 300]},
     ps \in {<<>>, <<Txt.SRC_CISA_UPPER>>}}

\* the thresholds _priority_for_score is called with: the defaults, a
\* shifted set, and a set in which P0 is the lowest
PriorityConfigs ==
  {[DefaultScoring EXCEPT !.thresholds = t] :
     t \in {DefaultScoring.thresholds,
            [P0 |-> 90, P1 |-> 60, P2 |-> 30, P3 |-> 0],
            [P0 |-> 50, P1 |-> 70, P2 |-> 85, P3 |-> 0]}}

\* the arguments of one call of score_alert or of _priority_for_score
ScoreArgs ==
  {[fn |-> "score_alert", item |-> i, match |-> MakeMatch(k), scoring |-> sc,
    stack |-> Stack("loose"), clock |-> Now0, score |-> 0] :
     i \in ScoreItems, k \in {"none", "direct", "keyword"}, sc \in ScoreConfigs}
  \cup
  {[fn |-> "_priority_for_score", item |-> MakeItem(NVD, <<>>, <<>>, <<>>, <<>>, <<>>),
    match |-> MakeMatch("none"), scoring |-> sc, stack |-> Stack("loose"), clock |-> Now0,
    score |-> n] :
     n \in -3..103, sc \in PriorityConfigs}

InitScore ==
  /\ pc = "call"
  /\ config \in ScoreArgs
  /\ results = <<>>
  /\ IdleInit

\* score = score_alert(item, match, scoring, stack)
CallScore ==
  /\ pc = "call"
  /\ config.fn = "score_alert"
  /\ results' = score_alert(config.item, config.match, config.scoring, config.stack,
                            config.clock)
  /\ pc' = "return"
  /\ UNCHANGED <<config, idleVars>>

\* priority = _priority_for_score(total, scoring)
CallPriority ==
  /\ pc = "call"
  /\ config.fn = "_priority_for_score"
  /\ results' = [priority |-> _priority_for_score(config.score, config.scoring)]
  /\ pc' = "return"
  /\ UNCHANGED <<config, idleVars>>

SpecScore == InitScore /\ [][CallScore \/ CallPriority]_vars

\* the arguments of one call of calculate_relevance: an item that names a
\* package (with no ecosystem, with PIP or with npm), mentions a package or
\* a service alias in its text, or has no link to the stack; a stack in strict
\* or loose mode, with or without synonyms and name normalization, whose
\* packages are in one or two ecosystems or under an empty ecosystem name; a
\* dependency graph; and the iteration order of the alias sets
MatchArgs ==
  {[item |-> [MakeItem(NVD, t[1], t[2], <<>>, pk, <<>>) EXCEPT !.ecosystems = ec],
    stack |-> [Stack(m) EXCEPT !.match.synonyms = sy, !.match.normalize_names = nn,
                               !.packages = sp],
    dependencies |-> dep, ord |-> ord] :
     t \in {<<Txt.TXT_AB, Txt.TXT_CD>>, <<Txt.TXT_K8S_ADVISORY, Txt.TXT_K8S_ISSUE>>,
            <<Txt.TXT_AKS_K8S, <<>>>>, <<Txt.TXT_LIBB_FIX, <<>>>>},
     pk \in {<<>>, <<LIBB>>, <<Txt.PKG_PY_X_NORM>>, <<K8S>>, <<URLZ>>},
     ec \in {<<>>, <<Txt.ECO_PIP_UPPER>>, <<NPM>>},
     m \in {"strict", "loose"}, sy \in BOOLEAN, nn \in BOOLEAN,
     sp \in {<< <<PIP, <<PY_X, LIBB>> >> >>,
             << <<PIP, <<KUBERNETES, LIBB>> >>, <<NPM, <<K8S>> >> >>,
             << <<<<>>, <<LIBB>> >> >>},
     dep \in {Dependencies,
              [direct |-> << <<PIP, <<URLZ>> >> >>,
               transitive |-> << <<PIP, <<K8S>> >>, <<NPM, <<LIBB>> >> >>]},
     ord \in {AliasOrder, <<AKS, K8S>>}}

InitMatch ==
  /\ pc = "call"
  /\ config \in MatchArgs
  /\ results = <<>>
  /\ IdleInit

\* match = calculate_relevance(item, config.stack, dependencies)
CallMatch ==
  /\ pc = "call"
  /\ results' = calculate_relevance(config.item, config.stack, config.dependencies, config.ord)
  /\ pc' = "return"
  /\ UNCHANGED <<config, idleVars>>

SpecMatch == InitMatch /\ [][CallMatch]_vars

(***************************************************************************)
(* src/notifiers: one call notifier.send(message, metadata) as _poll_once  *)
(* makes it.  config holds the notifier variant and what the endpoint      *)
(* does at each POST; results holds the loop counter, the number of POSTs  *)
(* made and the value returned.                                            *)
(***************************************************************************)
\* for attempt in range(3)
MAX_ATTEMPTS == 3

\* 200 <= response.status_code < 300
Is2xx(answer) == answer.t = "status" /\ 200 <= answer.status /\ answer.status < 300

\* what one POST meets: a status, a 429 with the delay _retry_after reads
\* from it ("inf" is float('inf'), which 'Retry-After: inf' parses to), or a
\* transport error raised by httpx
EndpointAnswers ==
  {[t |-> "status", status |-> n, retry_after |-> "1.0"] : n \in {200, 299, 300, 500}}
    \cup {[t |-> "status", status |-> 429, retry_after |-> r] : r \in {"1.0", "inf"}}
    \cup {[t |-> "error", status |-> 0, retry_after |-> "1.0"]}

SendArgs ==
  {[kind |-> k, answers |-> <<a1, a2, a3>>] :
     k \in {"slack", "discord", "webhook"},
     a1 \in EndpointAnswers, a2 \in EndpointAnswers, a3 \in EndpointAnswers}

InitSend ==
  /\ pc = "send"
  /\ config \in SendArgs
  /\ results = [attempt |-> 0, posts |-> 0, value |-> FALSE]
  /\ IdleInit

\* the end of one iteration of "for attempt in range(3)": the next POST, or
\* "return False" after the last
NextAttempt ==
  /\ results' = [results EXCEPT !.attempt = @ + 1, !.value = FALSE,
                                !.posts = IF pc = "post" THEN @ + 1 ELSE @]
  /\ pc' = IF results.attempt + 1 < MAX_ATTEMPTS THEN "post" ELSE "return"

\* send up to the first POST.  SlackNotifier.send(item, reasons) builds its
\* payload from item.severity, which a NotificationMessage does not have:
\* AttributeError.  DiscordNotifier.send waits at most half a second in
\* _throttle; WebhookNotifier.send builds its payload.
BuildPayload ==
  /\ pc = "send"
  /\ pc' = IF config.kind = "slack" THEN "raised" ELSE "post"
  /\ UNCHANGED <<config, results, idleVars>>

\* response = await client.post(...) and the tests of its status
ClientPost ==
  /\ pc = "post"
  /\ LET answer == config.answers[results.posts + 1]
     IN IF answer.t = "error"
        THEN pc' = "raised" /\ results' = [results EXCEPT !.posts = @ + 1]
        ELSE IF config.kind = "webhook"
        THEN pc' = "return"
             /\ results' = [results EXCEPT !.posts = @ + 1, !.value = Is2xx(answer)]
        ELSE IF answer.status = 429
        THEN pc' = "sleep" /\ results' = [results EXCEPT !.posts = @ + 1]
        ELSE IF Is2xx(answer)
        THEN pc' = "return"
             /\ results' = [results EXCEPT !.posts = @ + 1, !.value = TRUE]
        ELSE NextAttempt
  /\ UNCHANGED <<config, idleVars>>

\* await asyncio.sleep(retry_after); continue.  A sleep of float('inf')
\* never ends.
RetryAfterSleep ==
  /\ pc = "sleep"
  /\ config.answers[results.posts].retry_after # "inf"
  /\ NextAttempt
  /\ UNCHANGED <<config, idleVars>>

NextSend == BuildPayload \/ ClientPost \/ RetryAfterSleep

SpecSend == InitSend /\ [][NextSend]_vars

\* the event loop runs the coroutine whenever it can go on
FairSpecSend == SpecSend /\ WF_vars(NextSend)

(***************************************************************************)
(* Properties                                                              *)
(***************************************************************************)
\* the id has an entry in the ledger
InLedger(id) == id \in DOMAIN state.sent_items

InCycle == pc \in {"evaluate", "deliver", "finish"}

Relevant(item) == calculate_relevance(item, config.stack, Dependencies, AliasOrder).is_relevant

PassesFilters(item) ==
  /\ ~(~config.settings.include_low_severity /\ _is_low_severity(item))
  /\ ~_below_min_cvss(item, config.settings.min_cvss_score)

\* the sends of this cycle for the candidate at position c
SendsOf(c) == {k \in DOMAIN sendLog : sendLog[k].cand = c}

\* every configured notifier was called for the candidate at position c
FullyTried(c) ==
  \A n \in 1..Len(config.notifiers) : \E k \in SendsOf(c) : sendLog[k].notifier = n

\* every configured notifier returned True for the candidate at position c
Delivered(c) ==
  /\ FullyTried(c)
  /\ \A k \in SendsOf(c) : sendLog[k].success

\* C1: an item whose id is in the ledger when the first loop examines it is
\* skipped: the step changes nothing but the loop position (no match count,
\* no candidate, no send, no ledger change), also when the item matches the
\* stack; a candidate is appended only for an id that is not in the ledger,
\* only candidates are sent, and a timestamp already in the ledger is
\* rewritten only for the id of the candidate being delivered.
C1_LedgerGate ==
  /\ [](pc = "evaluate" => \A k \in DOMAIN candidates :
                             ~InLedger(candidates[k].item.id))
  /\ [][ /\ (pc = "evaluate" /\ pos <= Len(items) /\ InLedger(items[pos].id))
              => /\ pc' = "evaluate" /\ pos' = pos + 1
                 /\ UNCHANGED <<state, candidates, matched_count, notified_count, sendLog>>
         /\ (pc = "evaluate" /\ pos <= Len(items) /\ candidates' # candidates)
              => /\ ~InLedger(items[pos].id)
                 /\ candidates' = Append(candidates,
                      Candidate(items[pos], calculate_relevance(items[pos], config.stack,
                                                                Dependencies, AliasOrder)))
         /\ (pc # "poll" /\ sendLog' # sendLog)
              => /\ pc = "deliver"
                 /\ Len(sendLog') = Len(sendLog) + 1
                 /\ sendLog'[Len(sendLog')].cand \in DOMAIN candidates
         /\ \A id \in DOMAIN state.sent_items \cap DOMAIN state'.sent_items :
              state'.sent_items[id] # state.sent_items[id]
                => pc = "deliver" /\ id = candidates[cand].item.id
       ]_vars

\* C1 witness: a relevant item that passes the filters was examined while
\* its id was in the ledger, and no candidate was made for it
C1_Witness ==
  /\ pc = "evaluate" /\ ~config.dry_run /\ pos > 1
  /\ InLedger(items[pos - 1].id)
  /\ PassesFilters(items[pos - 1]) /\ Relevant(items[pos - 1])
  /\ \A k \in DOMAIN candidates : candidates[k].item.id # items[pos - 1].id

\* C2: in a non-dry-run cycle the ledger gains or restamps an id only in the
\* send of the last notifier for that candidate, and only if every notifier
\* returned True for it in this cycle; after a failure the remaining
\* notifiers are still called, the item is not marked and the loop goes on
\* with the next candidate.
C2_AllNotifiersMustSucceed ==
  [][ /\ (~config.dry_run /\ pc \notin {"load_state", "finish"}
            /\ state'.sent_items # state.sent_items)
           => /\ pc = "deliver"
              /\ notifier = Len(config.notifiers)
              /\ state'.sent_items = [id \in DOMAIN state.sent_items
                                              \cup {candidates[cand].item.id} |->
                                        IF id = candidates[cand].item.id THEN now'
                                        ELSE state.sent_items[id]]
              /\ Cardinality({k \in DOMAIN sendLog' : sendLog'[k].cand = cand})
                   = Len(config.notifiers)
              /\ \A k \in DOMAIN sendLog' : sendLog'[k].cand = cand => sendLog'[k].success
      /\ (pc = "deliver" /\ notifier < Len(config.notifiers))
           => /\ pc' = "deliver" /\ cand' = cand /\ notifier' = notifier + 1
              /\ state' = state
      /\ (pc = "deliver" /\ notifier = Len(config.notifiers)
            /\ \E k \in DOMAIN sendLog' : sendLog'[k].cand = cand /\ ~sendLog'[k].success)
           => /\ state' = state /\ notified_count' = notified_count
              /\ cand' = cand + 1
              /\ (cand < Len(candidates) => pc' = "deliver" /\ notifier' = 1)
    ]_vars

\* C2 witness: the first notifier failed for a candidate, the second was
\* still called and returned True, the item was not marked, and the next
\* candidate is being sent
C2_Witness ==
  /\ pc = "deliver" /\ cand >= 2 /\ Len(config.notifiers) = 2
  /\ \E k \in SendsOf(1) : sendLog[k].notifier = 1 /\ ~sendLog[k].success
  /\ \E k \in SendsOf(1) : sendLog[k].notifier = 2 /\ sendLog[k].success
  /\ ~InLedger(candidates[1].item.id)
  /\ SendsOf(2) # {}

\* the candidates of the cycle that were not marked sent
Unsent == {k \in DOMAIN candidates : ~InLedger(candidates[k].item.id)}

\* C3: a relevant item that was not marked sent in a cycle (a notifier
\* failed for it, or the cap stopped the sends) is examined again by the
\* next cycle of the run whenever the feeds answer: it is in the list the
\* first loop of the next cycle walks.
C3_RetriedNextCycle ==
  [][ (pc = "poll" /\ cycle > 1 /\ \A f \in DOMAIN results' : ~results'[f].exc)
        => \A k \in Unsent : \E j \in DOMAIN items' : items'[j].id = candidates[k].item.id
    ]_vars

\* C4: in a non-dry-run cycle the number of items delivered and marked sent
\* is at most max_notifications_per_run, and no send is made once that many
\* were delivered.
C4_CapRespected ==
  ~config.dry_run =>
    /\ notified_count <= config.settings.max_notifications_per_run
    /\ Cardinality({c \in DOMAIN candidates : Delivered(c)})
         <= config.settings.max_notifications_per_run

\* the urgency rank of a tier: P0 < P1 < P2 < P3
TierRank(priority) ==
  CASE priority = "P0" -> 0 [] priority = "P1" -> 1 [] priority = "P2" -> 2 [] OTHER -> 3

\* the tier and publication time of the candidate at position c
KeyOf(list, c) == <<TierRank(list[c].message.priority), list[c].message.published>>

\* a is more urgent than b, or as urgent and published earlier
Before(a, b) == a[1] < b[1] \/ (a[1] = b[1] /\ a[2] < b[2])

\* the elements of a list with a given sort key, in list order
WithKey(list, key) ==
  LET at == {c \in DOMAIN list : KeyOf(list, c) = key}
      RECURSIVE Pick(_)
      Pick(c) == IF c > Len(list) THEN <<>>
                 ELSE (IF c \in at THEN <<list[c]>> ELSE <<>>) \o Pick(c + 1)
  IN Pick(1)

\* C5: within a cycle the sends follow the priority order: a send for a
\* candidate with a more urgent tier, or the same tier and an earlier
\* publication time, precedes every send for the other candidate;
\* candidates equal in both are sent in the order they were evaluated, and
\* the evaluation walks the items in ascending publication time.
C5_PriorityOrder ==
  /\ \A p, q \in DOMAIN sendLog :
       p < q => ~Before(KeyOf(candidates, sendLog[q].cand), KeyOf(candidates, sendLog[p].cand))
  /\ \A p, q \in DOMAIN sendLog : p < q => sendLog[p].cand <= sendLog[q].cand
  /\ pc \in {"deliver", "finish"} /\ sendLog # <<>> =>
       \A c \in DOMAIN candidates :
         WithKey(candidates, KeyOf(candidates, c)) = WithKey(evaluated, KeyOf(candidates, c))
  /\ InCycle => \A i, j \in DOMAIN items : i < j => items[i].published <= items[j].published

\* C5 witness: three candidates were sent, the first sent was not the first
\* evaluated (a more urgent tier overtook an earlier publication), and two
\* candidates equal in tier and publication time were sent
C5_Witness ==
  /\ pc = "finish" /\ Len(candidates) >= 3
  /\ \A c \in 1..3 : SendsOf(c) # {}
  /\ candidates[1] # evaluated[1]
  /\ Before(KeyOf(candidates, 1), KeyOf(candidates, 2))
  /\ \E c \in 1..(Len(candidates) - 1) :
       /\ KeyOf(candidates, c) = KeyOf(candidates, c + 1)
       /\ SendsOf(c) # {} /\ SendsOf(c + 1) # {}

\* the urgency modes an operator can select
UrgencyModes == {"quiet", "normal", "loud"}

\* C6: whatever urgency mode the operator selected, an item is sent to the
\* notifiers only if the decision of classify_alert for it is immediate.
C6_OnlyImmediateSent ==
  \A mode \in UrgencyModes : \A k \in DOMAIN sendLog :
    LET item == candidates[sendLog[k].cand].item
        match == calculate_relevance(item, config.stack, Dependencies, AliasOrder)
        score == [score |-> candidates[sendLog[k].cand].message.score,
                  priority |-> candidates[sendLog[k].cand].message.priority]
    IN classify_alert(item, match, score, mode, <<>>, TRUE).immediate

\* the state file is not a well-formed ledger
Corrupt(f) ==
  \/ f.kind \in {"badjson", "nonobject"}
  \/ /\ f.kind = "object"
     /\ \/ f.last_poll.t \notin {"absent", "null", "iso"}
        \/ f.version.t \notin {"absent", "int"}
        \/ f.sent_items.t \notin {"absent", "null", "list", "dict"}
        \/ /\ f.sent_items.t = "dict"
           /\ \E id \in DOMAIN f.sent_items.v : f.sent_items.v[id].t # "iso"

\* C7: load_state never fails, and on a missing or corrupt state file it
\* returns the empty ledger.
C7_LoadNeverFails ==
  /\ pc # "crashed"
  /\ pc = "check_notifiers" /\ (file.kind = "missing" \/ Corrupt(file)) => state = EmptyState

\* C8: prune_sent, with the default retention of 30 days, removes exactly
\* the entries whose timestamp is strictly older than now - 30 days: the
\* entries at or after that boundary keep their timestamp, none is added and
\* last_poll stays what the cycle just set; an entry leaves the ledger only
\* in that step, once per cycle, after the deliveries and markings, and the
\* ledger does not change again before the next cycle.
C8_PruneExactlyOlder ==
  [][ /\ pc = "finish"
        => /\ DOMAIN state'.sent_items
                = {id \in DOMAIN state.sent_items : ~(state.sent_items[id] < now - 30)}
           /\ \A id \in DOMAIN state'.sent_items : state'.sent_items[id] = state.sent_items[id]
           /\ state'.last_poll = Some(now)
           /\ state'.version = state.version
           /\ pc' = "save_state"
      /\ (\E id \in DOMAIN state.sent_items : id \notin DOMAIN state'.sent_items)
        => pc = "finish"
      /\ pc \in {"save_state", "sleep"} => state' = state
    ]_vars

\* C8 witness: the cycle ended, an entry of the state file stamped 31 days
\* ago is gone, the one stamped exactly 30 days ago is kept
C8_Witness ==
  /\ pc = "save_state" /\ file.kind = "object" /\ file.sent_items.t = "dict"
  /\ \E id \in DOMAIN file.sent_items.v :
       /\ file.sent_items.v[id] = JIso(now - 31)
       /\ id \notin DOMAIN state.sent_items
  /\ \E id \in DOMAIN state.sent_items : state.sent_items[id] = now - 30

\* C9: in dry-run mode no notifier is called, and the step of the first loop
\* marks the item sent, stamped now, exactly when the item is not in the
\* ledger, passes the severity filters and is relevant; otherwise (and so
\* for every item that is not relevant) it leaves the ledger unchanged.
C9_DryRunMarksMatches ==
  /\ [](config.dry_run => sendLog = <<>> /\ candidates = <<>>)
  /\ [][ (config.dry_run /\ pc = "evaluate" /\ pos <= Len(items))
           => IF /\ items[pos].id \notin DOMAIN state.sent_items
                 /\ PassesFilters(items[pos])
                 /\ Relevant(items[pos])
              THEN /\ DOMAIN state'.sent_items = DOMAIN state.sent_items \cup {items[pos].id}
                   /\ state'.sent_items[items[pos].id] = now
                   /\ \A id \in DOMAIN state.sent_items :
                        state'.sent_items[id] = state.sent_items[id]
              ELSE state' = state
       ]_vars

\* C9 witness: a dry-run cycle examined all its items; a relevant one was
\* marked now and one that is not relevant is not in the ledger
C9_Witness ==
  /\ config.dry_run /\ pc = "evaluate" /\ pos > Len(items)
  /\ \E j \in DOMAIN items :
       /\ Relevant(items[j])
       /\ InLedger(items[j].id) /\ state.sent_items[items[j].id] = now
  /\ \E j \in DOMAIN items : ~Relevant(items[j]) /\ ~InLedger(items[j].id)

\* the number of positions of a list that hold x
Count(list, x) == Cardinality({j \in DOMAIN list : list[j] = x})

RECURSIVE SumOver(_, _)
SumOver(S, f) ==
  IF S = {} THEN 0
  ELSE LET e == CHOOSE e \in S : TRUE IN f[e] + SumOver(S \ {e}, f)

\* C10: a failed feed does not abort the cycle: the fetch is followed by the
\* evaluation, the list the first loop walks holds exactly the items the
\* other feeds returned (a failed feed contributes none), every item is
\* examined before the deliveries, every relevant one that is not in the
\* ledger and passes the filters becomes a candidate, and every candidate is
\* sent to all the notifiers in that cycle unless the cap stopped the loop.
C10_FeedFailureIsolated ==
  /\ [](InCycle =>
          /\ \A f \in DOMAIN results : results[f].exc => results[f].items = <<>>
          /\ Len(items) = SumOver(DOMAIN results, [f \in DOMAIN results |->
                                    Len(results[f].items)])
          /\ \A f \in DOMAIN results : \A j \in DOMAIN results[f].items :
               Count(items, results[f].items[j])
                 = SumOver(DOMAIN results, [g \in DOMAIN results |->
                             Count(results[g].items, results[f].items[j])]))
  /\ [](pc \in {"deliver", "finish"} => pos = Len(items) + 1)
  /\ [](pc = "finish" /\ ~config.dry_run =>
          \/ \A c \in DOMAIN candidates : FullyTried(c)
          \/ CapReached(notified_count))
  /\ [][ /\ pc = "poll" => pc' = "evaluate"
         /\ (pc = "evaluate" /\ pos <= Len(items) /\ ~config.dry_run
               /\ ~InLedger(items[pos].id) /\ PassesFilters(items[pos])
               /\ Relevant(items[pos]))
              => \E k \in DOMAIN candidates' : candidates'[k].item = items[pos]
       ]_vars

\* C10 witness: the NVD fetch failed, and an item of another feed was
\* delivered by every notifier and marked sent in the same cycle
C10_Witness ==
  /\ pc = "finish" /\ results["nvd"].exc /\ ~results["osv"].exc
  /\ \E c \in DOMAIN candidates :
       /\ Delivered(c)
       /\ InLedger(candidates[c].item.id)
       /\ \E j \in DOMAIN results["osv"].items : results["osv"].items[j] = candidates[c].item

\* C11: with no notifier configured and no dry-run the program stops with a
\* fatal error before the first poll cycle: the notifier check leads to the
\* fatal exit, nothing follows it, no feed is fetched and the state file is
\* never written; with dry-run (or a notifier) the check leads to the poll
\* cycles, and the state file is written only by save_state after a cycle.
C11_FatalWithoutNotifier ==
  /\ [](~config.dry_run /\ config.notifiers = <<>>
          => /\ pc \in {"load_state", "check_notifiers", "fatal", "crashed"}
             /\ results = <<>> /\ items = <<>> /\ cycle = 1 /\ sendLog = <<>>)
  /\ [][ /\ (pc = "check_notifiers" /\ ~config.dry_run /\ config.notifiers = <<>>)
              => pc' = "fatal" /\ file' = file
         /\ (pc = "check_notifiers" /\ (config.dry_run \/ config.notifiers # <<>>))
              => pc' = "poll"
         /\ pc # "fatal"
         /\ pc # "save_state" => file' = file
       ]_vars

\* C11 witness: the program stopped at the fatal exit with a state file on
\* disk that load_state had read
C11_Witness ==
  /\ pc = "fatal" /\ ~config.dry_run /\ config.notifiers = <<>>
  /\ file.kind = "object" /\ state.sent_items # <<>>

\* the call returned
CallReturned == pc = "return"

\* a keyword as it is searched: trimmed and lower-cased
Needle(keyword) == Lower(Strip(keyword))

\* the four texts of an item an always-page keyword is looked up in
FieldsOf(item) ==
  {item.title, item.description, Join(item.affected_packages), Join(item.affected_services)}

\* the keyword is a substring of one of the four texts
KeywordInField(item, keyword) ==
  /\ Needle(keyword) # <<>>
  /\ \E f \in FieldsOf(item) : Contains(Lower(f), Needle(keyword))

\* the non-empty ones of the four texts, joined by single spaces
TextOf(item) ==
  Lower(Join(SelectSeq(<<item.title, item.description, Join(item.affected_packages),
                         Join(item.affected_services)>>, LAMBDA bit : bit # <<>>)))

\* the keyword is a substring of the joined text
KeywordInText(item, keyword) ==
  /\ Needle(keyword) # <<>>
  /\ Contains(TextOf(item), Needle(keyword))

\* the positions of the always_page keywords found in the joined text
TextHits == {i \in DOMAIN config.always_page : KeywordInText(config.item, config.always_page[i])}

\* the always-page rule applies to the call
AlwaysPaged == config.match.is_relevant /\ TextHits # {}

\* C12 as stated: the always-page rule fires exactly when the item is
\* relevant and a trimmed, non-empty keyword is a case-insensitive substring
\* of the title, the description, the joined packages or the joined
\* services; the decision is then immediate, flagged and names such a keyword.
C12_AlwaysPageByField ==
  CallReturned =>
    LET hits == {i \in DOMAIN config.always_page :
                   KeywordInField(config.item, config.always_page[i])}
        triggered == config.match.is_relevant /\ hits # {}
    IN /\ triggered => /\ results.immediate /\ results.matched_always_page
                       /\ \E i \in hits : results.keyword = Some(config.always_page[i])
       /\ results.matched_always_page => triggered

\* C12 amended: the always-page rule fires, for every mode and mode_explicit,
\* exactly when the item is relevant and a trimmed, non-empty keyword is a
\* case-insensitive substring of the item's text, the non-empty ones of
\* title, description, joined packages and joined services joined by single
\* spaces; the decision is then immediate, flagged, and its reason names such
\* a keyword; an item that is not relevant never triggers the rule.
C12_AlwaysPageByText ==
  CallReturned =>
    /\ AlwaysPaged => /\ results.immediate /\ results.matched_always_page
                      /\ results.reason = <<"matched always_page keyword">>
                      /\ \E i \in TextHits : results.keyword = Some(config.always_page[i])
    /\ results.matched_always_page => AlwaysPaged
    /\ ~config.match.is_relevant => ~results.matched_always_page

\* the confidence signal of C14: cisa source or kev tag, an exploited-in-
\* the-wild phrase, a campaign phrase, or a trusted source
SignalOf(item) ==
  LET text == Lower(item.title \o <<" ">> \o item.description)
  IN \/ Lower(item.source) = <<"c","i","s","a">>
     \/ \E i \in DOMAIN item.tags : Lower(item.tags[i]) = <<"k","e","v">>
     \/ \E i \in DOMAIN EXPLOIT_PHRASES : Contains(text, EXPLOIT_PHRASES[i])
     \/ \E i \in DOMAIN CAMPAIGN_PHRASES : Contains(text, CAMPAIGN_PHRASES[i])
     \/ Lower(item.source) \in TRUSTED_SOURCES

\* C12 witness: in explicit quiet mode an item without any confidence signal
\* was paged because the padded upper-case keyword follows a blank one and
\* matches its title
C12_Witness ==
  /\ CallReturned /\ config.mode = "quiet" /\ config.mode_explicit
  /\ ~SignalOf(config.item)
  /\ config.always_page = <<Txt.KW_BLANK, Txt.KW_AB_PADDED>>
  /\ results.immediate /\ results.matched_always_page
  /\ results.keyword = Some(Txt.KW_AB_PADDED)

\* C13: with mode_explicit = false the decision is immediate for every mode,
\* score, tier, confidence signal and match evidence; when no always-page
\* keyword matched, the reason is the legacy default and
\* matched_always_page is false.
C13_LegacyDefaultImmediate ==
  CallReturned /\ ~config.mode_explicit =>
    /\ results.immediate
    /\ ~AlwaysPaged => /\ results.reason = <<"relevant to stack (legacy default)">>
                       /\ ~results.matched_always_page

\* C13 witness: a quiet-mode call without mode_explicit for an item with no
\* confidence signal, tier P3 and a keyword hit only returned immediate
C13_Witness ==
  /\ CallReturned /\ ~config.mode_explicit /\ config.mode = "quiet"
  /\ ~SignalOf(config.item) /\ config.score.priority = "P3"
  /\ config.match.details.keyword_hits # {} /\ config.always_page = <<>>
  /\ results.immediate /\ results.reason = <<"relevant to stack (legacy default)">>

\* C14: in explicit quiet mode with no always-page match the decision is
\* immediate if and only if the item has a confidence signal; the score and
\* its tier have no effect.
C14_QuietNeedsConfidence ==
  CallReturned /\ config.mode_explicit /\ config.mode = "quiet" /\ ~AlwaysPaged =>
    /\ results.immediate <=> SignalOf(config.item)
    /\ ~results.matched_always_page

\* C14 witness: an item of tier P0 with a direct package hit and no
\* confidence signal was deferred in quiet mode
C14_Witness ==
  /\ CallReturned /\ config.mode_explicit /\ config.mode = "quiet" /\ ~AlwaysPaged
  /\ config.score.priority = "P0" /\ config.match.details.direct_package_hits # {}
  /\ ~SignalOf(config.item) /\ ~results.immediate

\* the match has a direct-package, service or cloud hit
HighRelevance(match) ==
  \/ match.details.direct_package_hits # {}
  \/ match.details.service_hits # {}
  \/ match.details.cloud_hits # {}

\* C15: in an explicit mode other than quiet and loud, with no always-page
\* match, the decision is deferred when there is no direct-package, service
\* or cloud hit; otherwise it is immediate if and only if the tier is P0 or
\* P1 or the item has a confidence signal.
C15_NormalMode ==
  CallReturned /\ config.mode_explicit /\ config.mode \notin {"quiet", "loud"} /\ ~AlwaysPaged =>
    IF HighRelevance(config.match)
    THEN results.immediate <=> (config.score.priority \in {"P0", "P1"} \/ SignalOf(config.item))
    ELSE ~results.immediate

\* C15 witness: in an unknown explicit mode a cloud hit of tier P1 without a
\* confidence signal was paged
C15_Witness ==
  /\ CallReturned /\ config.mode_explicit /\ config.mode = "digest" /\ ~AlwaysPaged
  /\ config.match.details.cloud_hits # {} /\ config.score.priority = "P1"
  /\ ~SignalOf(config.item) /\ results.immediate

\* C16: in explicit loud mode the decision is immediate for every item,
\* match evidence, score and confidence signal.
C16_LoudImmediate ==
  CallReturned /\ config.mode_explicit /\ config.mode = "loud" => results.immediate

\* C16 witness: in loud mode an item of tier P3 with a language hit only,
\* no confidence signal and no always-page keyword was paged
C16_Witness ==
  /\ CallReturned /\ config.mode_explicit /\ config.mode = "loud" /\ ~AlwaysPaged
  /\ config.match.details.language_hits # {} /\ config.score.priority = "P3"
  /\ ~SignalOf(config.item) /\ results.immediate

\* score_alert was called and returned
ScoreReturned == pc = "return" /\ config.fn = "score_alert"

\* C17 as stated: score_alert returns a score in 0..100 for every item, match
\* evidence and scoring configuration, whatever the weights and the
\* preferred sources.
C17_ScoreInRange ==
  ScoreReturned => results.score \in 0..100

\* C18: the tier is the first of P0, P1, P2 whose threshold the score meets
\* or exceeds, else P3; with the thresholds 85/70/50 a score of 85 or more is
\* P0, 70..84 is P1, 50..69 is P2 and less than 50 is P3.
C18_PriorityTiers ==
  pc = "return" /\ config.fn = "_priority_for_score" =>
    LET t == config.scoring.thresholds
        n == config.score
        order == <<"P0", "P1", "P2">>
        met == {i \in DOMAIN order : n >= t[order[i]]}
    IN /\ results.priority = IF met = {} THEN "P3"
                             ELSE order[CHOOSE i \in met : \A j \in met : i <= j]
       /\ (t.P0 = 85 /\ t.P1 = 70 /\ t.P2 = 50) =>
            /\ results.priority = "P0" <=> n >= 85
            /\ results.priority = "P1" <=> n \in 70..84
            /\ results.priority = "P2" <=> n \in 50..69
            /\ results.priority = "P3" <=> n < 50

\* C18 witness: with the thresholds 85/70/50 the score 85 was given P0
C18_Witness ==
  /\ pc = "return" /\ config.fn = "_priority_for_score"
  /\ config.scoring.thresholds.P0 = 85 /\ config.score = 85
  /\ results.priority = "P0"

\* C19 as stated: with everything else equal (match evidence, configuration,
\* evaluation time), an item with a larger cvss_score gets a score at least
\* as large.
C19_MonotonicInCvss ==
  ScoreReturned /\ config.item.cvss_score # None =>
    \A c \in {-5, 0, 40, 98, 100, 120} :
      c >= config.item.cvss_score[1] =>
        score_alert([config.item EXCEPT !.cvss_score = Some(c)], config.match,
                    config.scoring, config.stack, config.clock).score >= results.score

\* the call of C20: scoring enabled with the default weights and thresholds,
\* an item of severity critical, CVSS 9.8, tag kev and source cisa, matched
\* by a direct package hit
KevCriticalDirect ==
  /\ ScoreReturned
  /\ config.scoring.enabled
  /\ config.scoring.weights = [severity |-> 45, exploitability |-> 25, relevance |-> 20, recency |-> 10]
  /\ config.scoring.thresholds = [P0 |-> 85, P1 |-> 70, P2 |-> 50, P3 |-> 0]
  /\ Lower(config.item.severity) = <<"c","r","i","t","i","c","a","l">>
  /\ config.item.cvss_score = Some(98)
  /\ \E i \in DOMAIN config.item.tags : config.item.tags[i] = <<"k","e","v">>
  /\ config.item.source = <<"c","i","s","a">>
  /\ config.match.details.direct_package_hits # {}

TableNames(table, eco) ==
  UNION {{normalize_package_name(table[i][2][k], eco, config.stack.match.normalize_names) :
            k \in DOMAIN table[i][2]} :
         i \in {j \in DOMAIN table : Lower(table[j][1]) = eco}}

\* the stack's direct package set of an ecosystem: the declared packages
\* plus the dependency graph's direct set
DirectNames(eco) ==
  TableNames(config.stack.packages, eco) \cup TableNames(config.dependencies.direct, eco)

\* the ecosystems of the stack's direct package set
DirectEcosystems ==
  {Lower(config.stack.packages[i][1]) : i \in DOMAIN config.stack.packages}
    \cup {Lower(config.dependencies.direct[i][1]) : i \in DOMAIN config.dependencies.direct}

\* the item names exactly the package p and the result records it as a
\* direct package hit
DirectHitFor(p) ==
  config.item.affected_packages = <<p>> =>
    /\ results.is_relevant
    /\ p \in results.details.direct_package_hits
    /\ <<"Direct package match", p>> \in results.reasons

\* C21 as stated: for every package p of the stack's direct package set of an
\* ecosystem, an item whose affected-package list is exactly p (normalized
\* for that ecosystem) is relevant with p in direct_package_hits and a
\* 'Direct package match' reason, in strict and in loose mode.
C21_DirectPackageMatch ==
  CallReturned =>
    \A eco \in DirectEcosystems : \A p \in DirectNames(eco) : DirectHitFor(p)

\* C21 amended: the same, for an ecosystem with a non-empty name and an item
\* whose ecosystems list is empty or names that ecosystem (in any case).
C21_DirectPackageMatchInEcosystem ==
  CallReturned =>
    \A eco \in DirectEcosystems \ {<<>>} :
      (config.item.ecosystems = <<>>
         \/ \E i \in DOMAIN config.item.ecosystems : Lower(config.item.ecosystems[i]) = eco) =>
        \A p \in DirectNames(eco) : DirectHitFor(p)

\* C21 witness: in strict mode an item of ecosystem PIP naming a package that
\* only the dependency graph's direct set holds was matched directly
C21_Witness ==
  /\ CallReturned /\ config.stack.match.mode = "strict"
  /\ config.item.affected_packages = <<URLZ>>
  /\ config.item.ecosystems = <<Txt.ECO_PIP_UPPER>>
  /\ URLZ \in TableNames(config.dependencies.direct, PIP)
  /\ URLZ \notin TableNames(config.stack.packages, PIP)
  /\ results.is_relevant /\ URLZ \in results.details.direct_package_hits

\* the lower-cased title and description of the item matched
ItemText == Lower(config.item.title \o <<" ">> \o config.item.description)

\* the lower-cased names the stack configures: direct packages, services,
\* cloud providers, keywords and languages
ConfiguredTerms ==
  UNION {{Lower(p) : p \in DirectNames(eco)} : eco \in DirectEcosystems}
    \cup UNION {{Lower(l[i]) : i \in DOMAIN l} :
                l \in {config.stack.services, config.stack.cloud,
                       config.stack.keywords, config.stack.languages}}

\* the built-in aliases of a canonical name
AliasesOf(canonical) ==
  UNION {{DEFAULT_SYNONYMS[i][2][k] : k \in DOMAIN DEFAULT_SYNONYMS[i][2]} :
         i \in {j \in DOMAIN DEFAULT_SYNONYMS : DEFAULT_SYNONYMS[j][1] = canonical}}

\* the only link of the item to the stack is a mention of the alias k8s of
\* the configured service kubernetes: the item names no package, service or
\* cloud, its text holds no configured name, and no alias of a configured
\* package or cloud provider
OnlyServiceAliasMention ==
  /\ CallReturned
  /\ config.item.affected_packages = <<>>
  /\ config.item.affected_services = <<>> /\ config.item.affected_cloud = <<>>
  /\ config.stack.services = <<KUBERNETES>> /\ config.stack.synonyms = <<>>
  /\ _contains_token(ItemText, K8S)
  /\ \A t \in ConfiguredTerms : ~_contains_token(ItemText, t)
  /\ \A t \in ConfiguredTerms \ {KUBERNETES} :
       \A a \in AliasesOf(t) : ~_contains_token(ItemText, a)

\* the result is relevant through a service reason that resolves an alias
\* to kubernetes
ResolvedToKubernetes ==
  /\ results.is_relevant
  /\ results.details.service_hits = {KUBERNETES}
  /\ \E a \in AliasesOf(KUBERNETES) :
       results.reasons = {<<"Service alias match", a, KUBERNETES>>}

\* C22 as stated: such an item is not relevant in strict mode and relevant
\* in loose mode, with a service reason resolving the alias to the canonical
\* service.
C22_AliasMentionByMode ==
  OnlyServiceAliasMention =>
    IF config.stack.match.mode = "strict" THEN ~results.is_relevant
    ELSE ResolvedToKubernetes

\* C22 amended: such an item is not relevant in strict mode, nor in loose
\* mode with the synonyms switched off; in loose mode with synonyms on it is
\* relevant with a service reason resolving the alias to the canonical
\* service.
C22_AliasMentionByModeAndSynonyms ==
  OnlyServiceAliasMention =>
    IF config.stack.match.mode = "loose" /\ config.stack.match.synonyms
    THEN ResolvedToKubernetes
    ELSE ~results.is_relevant /\ results.reasons = {}

\* C22 witness: 'K8s advisory / k8s issue' was matched in loose mode with
\* synonyms on through the alias k8s
C22_Witness ==
  /\ OnlyServiceAliasMention
  /\ config.item.title = Txt.TXT_K8S_ADVISORY
  /\ config.stack.match.mode = "loose" /\ config.stack.match.synonyms
  /\ results.reasons = {<<"Service alias match", K8S, KUBERNETES>>}

\* send is over: it returned or raised
SendOver == pc \in {"return", "raised"}

\* every POST made so far met a status (no transport error)
AnsweredPosts == \A k \in 1..results.posts : config.answers[k].t = "status"

\* C23 as stated: every notifier variant, called with a message and its
\* metadata, returns true when the endpoint answers with a 2xx status and
\* false, without raising, when it answers with another status.
C23_SendReturnsBool ==
  (pc \in {"sleep", "return", "raised"} /\ AnsweredPosts) =>
    /\ pc # "raised"
    /\ pc = "return" => /\ results.posts >= 1
                        /\ results.value <=> Is2xx(config.answers[results.posts])

\* C27 as stated: within one poll cycle that is not a dry run, each item
\* identifier is dispatched to each notifier at most once, also when the
\* pooled feed results hold two items with the same identifier.
C27_DispatchedOncePerCycle ==
  \A i, j \in DOMAIN sendLog :
    (i # j /\ sendLog[i].notifier = sendLog[j].notifier) =>
      candidates[sendLog[i].cand].item.id # candidates[sendLog[j].cand].item.id

\* the transitive package set of an ecosystem
TransitiveNames(eco) == TableNames(config.dependencies.transitive, eco)

\* the ecosystems _match_packages tries for the item: its own, or all the
\* known ones when it declares none; an empty name is skipped
CandidateEcosystems ==
  (IF \E i \in DOMAIN config.item.ecosystems : config.item.ecosystems[i] # <<>>
   THEN {Lower(config.item.ecosystems[i]) :
           i \in {j \in DOMAIN config.item.ecosystems : config.item.ecosystems[j] # <<>>}}
   ELSE DirectEcosystems
          \cup {Lower(config.dependencies.transitive[i][1]) :
                  i \in DOMAIN config.dependencies.transitive}) \ {<<>>}

\* the names of the item's affected packages, normalized for an ecosystem
AffectedNames(eco) ==
  {normalize_package_name(config.item.affected_packages[k], eco,
                          config.stack.match.normalize_names) :
     k \in DOMAIN config.item.affected_packages}

\* C24 as stated: the alias of a name is tried only after the name itself
\* failed against the direct and the transitive set, so an affected package
\* whose own normalized name is in the transitive set of a candidate
\* ecosystem, and not in its direct set, is recorded as a transitive
\* package hit.
C24_OwnNameBeforeAlias ==
  CallReturned =>
    \A eco \in CandidateEcosystems :
      \A n \in AffectedNames(eco) :
        (n \in TransitiveNames(eco) /\ n \notin DirectNames(eco)) =>
          n \in results.details.transitive_package_hits

\* the evidence buckets of the result
BucketNames ==
  {"direct_package_hits", "transitive_package_hits", "service_hits", "cloud_hits",
   "keyword_hits", "language_hits", "alias_hits"}

\* C25 as stated: the evidence buckets of every MatchResult are disjoint, for
\* any stack with several ecosystems: no term is in both direct_package_hits
\* and transitive_package_hits, nor in both a package bucket and alias_hits.
C25_BucketsDisjoint ==
  CallReturned =>
    LET details == results.details
    IN /\ details.direct_package_hits \cap details.transitive_package_hits = {}
       /\ (details.direct_package_hits \cup details.transitive_package_hits)
            \cap details.alias_hits = {}

\* C26 as stated: for the same item, stack and dependency graph the result
\* (is_relevant, reasons, evidence buckets) is the same whatever the
\* iteration order of the alias sets, and is_relevant is true exactly when
\* the reasons are not empty.
C26_Deterministic ==
  CallReturned =>
    /\ results.is_relevant <=> results.reasons # {}
    /\ \A ord \in {AliasOrder, <<AKS, K8S>>} :
         calculate_relevance(config.item, config.stack, config.dependencies, ord) = results

\* C29 as stated: whenever the result is relevant, at least one evidence
\* bucket is non-empty and _score_relevance on the result is greater than 0.
C29_RelevantScoresPositive ==
  (CallReturned /\ results.is_relevant) =>
    /\ \E b \in BucketNames : results.details[b] # {}
    /\ _score_relevance(results, config.stack).score > 0

\* C29 amended: whenever the result is relevant, at least one evidence bucket
\* is non-empty, and _score_relevance is greater than 0 exactly when a bucket
\* other than alias_hits is non-empty: a match through a package alias only
\* has the relevance sub-score 0.
C29_RelevantScoresPositiveButAlias ==
  (CallReturned /\ results.is_relevant) =>
    /\ \E b \in BucketNames : results.details[b] # {}
    /\ _score_relevance(results, config.stack).score > 0
         <=> \E b \in BucketNames \ {"alias_hits"} : results.details[b] # {}

\* C29 witness: an item matched only through the package alias k8s of
\* kubernetes is relevant with the relevance sub-score 0
C29_Witness ==
  /\ CallReturned /\ results.is_relevant
  /\ results.details.alias_hits = {K8S}
  /\ \A b \in BucketNames \ {"alias_hits"} : results.details[b] = {}
  /\ _score_relevance(results, config.stack).score = 0

\* the same call in another explicit mode is immediate
ImmediateIn(mode) ==
  classify_alert(config.item, config.match, config.score, mode, config.always_page,
                 TRUE).immediate

\* C28 as stated: with mode_explicit = true the modes are ordered by
\* loudness: a relevant item immediate in quiet mode is immediate in normal mode,
\* and an item immediate in normal mode is immediate in loud mode.
C28_LoudnessOrder ==
  CallReturned /\ config.match.is_relevant /\ config.mode_explicit /\ results.immediate =>
    /\ config.mode = "quiet" => ImmediateIn("normal")
    /\ config.mode = "normal" => ImmediateIn("loud")

\* C28 amended: with mode_explicit = true a relevant item immediate in quiet or in
\* normal mode is immediate in loud mode; an item immediate in quiet mode is
\* immediate in normal mode when it has a direct-package, service or cloud
\* hit or an always-page keyword matched, and is deferred in normal mode
\* otherwise.
C28_LoudestIsLoud ==
  CallReturned /\ config.match.is_relevant /\ config.mode_explicit /\ results.immediate =>
    /\ config.mode \in {"quiet", "normal"} => ImmediateIn("loud")
    /\ config.mode = "quiet" =>
         (ImmediateIn("normal") <=> (HighRelevance(config.match) \/ AlwaysPaged))

\* C28 witness: an item of tier P3 with a confidence signal and a service
\* hit, no always-page keyword, was paged in quiet mode and is paged in
\* normal and in loud mode
C28_Witness ==
  /\ CallReturned /\ config.mode_explicit /\ config.mode = "quiet" /\ ~AlwaysPaged
  /\ config.score.priority = "P3" /\ config.match.details.service_hits # {}
  /\ results.immediate /\ ImmediateIn("normal") /\ ImmediateIn("loud")

\* DiscordNotifier.send is called and every POST meets a status
DiscordAnswered ==
  config.kind = "discord" /\ \A k \in DOMAIN config.answers : config.answers[k].t = "status"

\* C30 as stated: DiscordNotifier.send always terminates after at most 3 POST
\* attempts, for any sequence of endpoint answers (success, 429, other
\* status): it returns true at the first 2xx answer, retries after a 429, and
\* returns false once three attempts have not met a 2xx.
C30_DiscordSendTerminates ==
  DiscordAnswered =>
    /\ [](results.posts <= MAX_ATTEMPTS)
    /\ [](pc = "return" =>
            /\ results.value <=> Is2xx(config.answers[results.posts])
            /\ \A k \in 1..(results.posts - 1) : ~Is2xx(config.answers[k])
            /\ ~results.value => results.posts = MAX_ATTEMPTS)
    /\ <>SendOver

====
